---- MODULE Spec2Model ----
(***************************************************************************)
(* War_RoomAI: threshold anomaly detection, time-window correlation,       *)
(* root-cause ranking and the REMOTE -> LLM -> LOCAL recommendation        *)
(* resolver, modelled from src/src/*.py and src/mock_api_server.py.        *)
(***************************************************************************)
EXTENDS Integers, Sequences, FiniteSets, TLC

VARIABLES
    \* configuration (src/src/config.py)
    thresholds, correlation_window, recommendations, API_CONFIG, LLM_CONFIG,
    \* get_recommendation_with_fallback (src/src/api_service.py)
    r_pc, r_args, attempt, trace, api_recommendation, llm_rec, r_result, n_requests,
    \* metric_anomaly (src/src/anomaly_detector.py): the call's position, its
    \* argument and what it returned or raised
    d_pc, metrics_df, detect_result,
    \* correlate (src/src/correlator.py)
    c_pc, metric_anomalies, log_anomalies, correlate_result,
    \* analyze_root_cause and generate_incident_report (src/src/root_cause.py)
    a_pc, a_entry, correlated_df, service_rankings, services_data, a_idx,
    service_recommendations, analysis_result, report,
    \* get_bulk_recommendations_with_fallback (src/src/api_service.py)
    b_pc, b_services_data, b_idx, results, b_return,
    \* the mock recommendation server (src/mock_api_server.py)
    API_MODE, mock_response,
    \* the import of config.py and main() (src/src/config.py, src/src/main.py)
    m_pc, raw_config, validate_result, logs, warnings_df

config_vars == <<thresholds, correlation_window, recommendations, API_CONFIG, LLM_CONFIG>>

resolver_vars == <<r_pc, r_args, attempt, trace, api_recommendation, llm_rec, r_result, n_requests>>

detect_vars == <<d_pc, metrics_df, detect_result>>

correlate_vars == <<c_pc, metric_anomalies, log_anomalies, correlate_result>>

analyze_vars == <<a_pc, a_entry, correlated_df, service_rankings, services_data, a_idx,
                  service_recommendations, analysis_result, report>>

bulk_vars == <<b_pc, b_services_data, b_idx, results, b_return>>

mock_vars == <<API_MODE, mock_response>>

main_vars == <<m_pc, raw_config, validate_result, logs, warnings_df>>

vars == <<config_vars, resolver_vars, detect_vars, correlate_vars, analyze_vars,
          bulk_vars, mock_vars, main_vars>>

\* what the resolver never writes
outside_resolver ==
    <<config_vars, detect_vars, correlate_vars, analyze_vars, bulk_vars, mock_vars, main_vars>>

----------------------------------------------------------------------------
(* Bounds of the model *)

\* largest retry_attempts setting explored
MaxRetry == 2

\* largest anomaly_count passed to the resolver
MaxCount == 2

\* longest metric batch given to metric_anomaly
MaxMetrics == 2

\* most anomalies and most log errors given to correlate
MaxAnoms == 2

MaxLogs == 2

\* most correlation records given to analyze_root_cause
MaxCorr == 3

\* longest services_data list given to the bulk resolver
MaxBulk == 2

\* largest anomaly_count sent to the mock server
MaxMockCount == 12

----------------------------------------------------------------------------
(* Python values: None, a string, or a raised exception *)

None == [k |-> "None", v |-> ""]

Str(s) == [k |-> "str", v |-> s]

Raise(e) == [k |-> "raise", v |-> e]

\* Python truthiness of an Optional[str] result: `if api_recommendation:`
Truthy(x) == x.k = "str" /\ x.v # ""

----------------------------------------------------------------------------
(* config.py *)

\* the value of a dict-typed or scalar threshold entry
Scalar(n) == [kind |-> "scalar", value |-> n, map |-> <<>>]

PerService(m) == [kind |-> "dict", value |-> 0, map |-> m]

config_thresholds ==
    [cpu_pct |-> Scalar(85),
     latency_ms |-> PerService([frontend |-> 350, api |-> 350, database |-> 200])]

config_correlation_window == 5

config_recommendations ==
    [api |-> "Check API latency and backend dependencies. Possible timeout or overload.",
     database |-> "Database CPU or query latency spikes - consider indexing or connection pooling.",
     frontend |-> "Frontend response time high - check for slow API calls or JavaScript rendering bottlenecks."]

DefaultRecommendation == "No predefined recommendation available for this service."

\* a lookup whose default is the empty string
get_recommendation_empty_default(service) ==
    IF service \in DOMAIN recommendations
    THEN recommendations[service]
    ELSE ""

\* a lookup that answers an unknown service with the entry of 'api'
get_recommendation_api_for_unknown(service) ==
    IF service \in DOMAIN recommendations
    THEN recommendations[service]
    ELSE recommendations["api"]

\* config.get_recommendation: recommendations.get(service, default)
get_recommendation(service) ==
    IF service \in DOMAIN recommendations
    THEN recommendations[service]
    ELSE DefaultRecommendation

\* API_CONFIG as config.py sets it
config_API_CONFIG == [retry_attempts |-> 0, fallback_enabled |-> TRUE]

\* LLM_CONFIG with no environment variable set
config_LLM_CONFIG == [enabled |-> TRUE, api_key |-> "", llm_only |-> FALSE]

\* API_CONFIG values validate_config accepts for the keys the client reads
ApiConfigs ==
    [retry_attempts : 0..MaxRetry, fallback_enabled : BOOLEAN]

\* LLM_CONFIG as read from the environment
LlmConfigs ==
    [enabled : BOOLEAN, api_key : {"", "sk-test"}, llm_only : BOOLEAN]

----------------------------------------------------------------------------
(* Record batches (pandas DataFrames) *)

\* a missing string cell (NaN)
NaN == "NaN"

\* a numeric cell: a number, NaN, or a value that is not a number
Num(n) == [k |-> "num", n |-> n]

NaNValue == [k |-> "nan", n |-> 0]

NotANumber == [k |-> "str", n |-> 0]

\* a timestamp cell is <<t>> (seconds) or <<>> (NaT)
NaT == <<>>

DataFrame(columns, rows) == [kind |-> "DataFrame", columns |-> columns, rows |-> rows]

\* an emptiness test that looks at the columns only
IsEmpty_columns_only(df) == df.columns = {}

\* df.empty: no rows or no columns
IsEmpty(df) == Len(df.rows) = 0 \/ df.columns = {}

MetricColumns == {"time_stamp", "service", "metric_name", "value"}

LogColumns == {"timestamp", "level", "message", "service"}

CorrelationColumns ==
    {"timestamp", "metric_service", "metric_name", "metric_value", "log_service", "log_message"}

\* the sequences over S of length at most n
SeqUpTo(S, n) == UNION {[1..k -> S] : k \in 0..n}

\* abs()
Abs(x) == IF x < 0 THEN -x ELSE x

----------------------------------------------------------------------------
(* anomaly_detector.py *)

\* config.get_threshold returning None: unknown metric or service
NoThreshold == <<>>

\* a lookup that reads a service missing from a per-service entry as 0
get_threshold_absent_as_zero(metric_name, service) ==
    IF metric_name \notin DOMAIN thresholds
    THEN NoThreshold
    ELSE LET threshold == thresholds[metric_name] IN
         IF threshold.kind = "dict"
         THEN (IF service \in DOMAIN threshold.map
               THEN <<threshold.map[service]>>
               ELSE <<0>>)
         ELSE <<threshold.value>>

\* config.get_threshold(metric_name, service), lines 162-173; <<T>> or <<>>
get_threshold(metric_name, service) ==
    IF metric_name \notin DOMAIN thresholds
    THEN NoThreshold
    ELSE LET threshold == thresholds[metric_name] IN
         IF threshold.kind = "dict"
         THEN (IF service \in DOMAIN threshold.map
               THEN <<threshold.map[service]>>
               ELSE NoThreshold)
         ELSE <<threshold.value>>

\* a comparison that lets the threshold itself qualify
Exceeds_or_equal(value, threshold_value) == value >= threshold_value

\* metric_anomaly line 89: `if value > threshold_value`
Exceeds(value, threshold_value) == value > threshold_value

\* the body of the loop of metric_anomaly for one row, lines 71-98
RowVerdict(row) ==
    IF row.metric_name = NaN \/ row.value.k = "nan" \/ row.service = NaN
    THEN "skipped"
    ELSE LET threshold_value == get_threshold(row.metric_name, row.service) IN
         IF threshold_value = NoThreshold
         THEN "no_threshold"
         ELSE IF row.value.k # "num"
              THEN "error"
              ELSE IF Exceeds(row.value.n, threshold_value[1])
                   THEN "anomaly"
                   ELSE "normal"

\* the number of rows of a batch with one of the verdicts
CountVerdicts(rows, verdicts) ==
    Len(SelectSeq(rows, LAMBDA row : RowVerdict(row) \in verdicts))

Returned(df, counts) == [status |-> "ok", df |-> df, counts |-> counts]

Raised(e) ==
    [status |-> e, df |-> DataFrame({}, <<>>), counts |-> <<0, 0>>]

\* the rows of a list, last first
Reversed(rows) == [i \in 1..Len(rows) |-> rows[Len(rows) + 1 - i]]

\* a detector that hands back its anomalies latest first
metric_anomaly_latest_first(df) ==
    IF df.kind # "DataFrame"
    THEN Raised("TypeError")
    ELSE IF IsEmpty(df)
         THEN Returned(DataFrame(MetricColumns, <<>>), <<0, 0>>)
         ELSE IF MetricColumns \ df.columns # {}
              THEN Raised("ValueError")
              ELSE Returned(
                     DataFrame(MetricColumns,
                               Reversed(SelectSeq(df.rows,
                                                  LAMBDA row : RowVerdict(row) = "anomaly"))),
                     <<CountVerdicts(df.rows, {"anomaly", "normal"}),
                       CountVerdicts(df.rows, {"error"})>>)

\* metric_anomaly(df), lines 45-113: the anomalies in input order, with
\* processed_count and error_count
metric_anomaly(df) ==
    IF df.kind # "DataFrame"
    THEN Raised("TypeError")
    ELSE IF IsEmpty(df)
         THEN Returned(DataFrame(MetricColumns, <<>>), <<0, 0>>)
         ELSE IF MetricColumns \ df.columns # {}
              THEN Raised("ValueError")
              ELSE Returned(
                     DataFrame(MetricColumns,
                               SelectSeq(df.rows, LAMBDA row : RowVerdict(row) = "anomaly")),
                     <<CountVerdicts(df.rows, {"anomaly", "normal"}),
                       CountVerdicts(df.rows, {"error"})>>)

NotCalled == Raised("not called")

\* one metric row
MetricRow(t, s, m, v) ==
    [time_stamp |-> t, service |-> s, metric_name |-> m, value |-> v]

\* the values tried for a (service, metric) cell: around the threshold when
\* one is configured
ValuesFor(s, m) ==
    IF s = NaN \/ m = NaN \/ get_threshold(m, s) = NoThreshold
    THEN {Num(999), NaNValue}
    ELSE LET T == get_threshold(m, s)[1] IN
         {Num(T - 1), Num(T), Num(T + 1), NaNValue, NotANumber}

DetectServices == {"api", "database", "cache", NaN}

DetectMetrics == {"cpu_pct", "latency_ms", "mem_pct", NaN}

MetricRows ==
    UNION {{MetricRow(<<0>>, s, m, v) : v \in ValuesFor(s, m)} :
              s \in DetectServices, m \in DetectMetrics}

\* pandas gives the rows of a fresh frame the index 0, 1, 2, ...
WithIndex(rows) ==
    [i \in 1..Len(rows) |-> [index |-> i - 1] @@ rows[i]]

\* a detector call that filters the caller's frame in place
MetricAnomaly_in_place ==
    /\ d_pc = "ready"
    /\ detect_result' = metric_anomaly(metrics_df)
    /\ metrics_df' = metric_anomaly(metrics_df).df
    /\ d_pc' = "returned"
    /\ UNCHANGED <<config_vars, resolver_vars, correlate_vars, analyze_vars,
                   bulk_vars, mock_vars, main_vars>>

\* a call of metric_anomaly
MetricAnomaly ==
    /\ d_pc = "ready"
    /\ detect_result' = metric_anomaly(metrics_df)
    /\ d_pc' = "returned"
    /\ UNCHANGED <<metrics_df, config_vars, resolver_vars, correlate_vars, analyze_vars,
                   bulk_vars, mock_vars,
                   main_vars>>

----------------------------------------------------------------------------
(* correlator.py *)

\* a window test that leaves the boundary out
WithinWindow_strict(time_diff) == time_diff < correlation_window

\* correlate line 129: `if time_diff <= correlation_window`
WithinWindow(time_diff) == time_diff <= correlation_window

\* correlate lines 130-138: the record of one pair
correlation_record(m_row, l_row) ==
    [timestamp |-> m_row.time_stamp,
     metric_service |-> m_row.service,
     metric_name |-> m_row.metric_name,
     metric_value |-> m_row.value,
     log_service |-> l_row.service,
     log_message |-> l_row.message,
     time_diff_seconds |-> Abs(m_row.time_stamp[1] - l_row.timestamp[1])]

\* an inner loop that stops at the first log record within the window
RECURSIVE CorrelateLogs_first_match(_, _, _)
CorrelateLogs_first_match(m_row, l_rows, j) ==
    IF j > Len(l_rows)
    THEN <<>>
    ELSE LET l_row == l_rows[j] IN
         IF l_row.timestamp = NaT
         THEN CorrelateLogs_first_match(m_row, l_rows, j + 1)
         ELSE IF WithinWindow(Abs(m_row.time_stamp[1] - l_row.timestamp[1]))
              THEN <<correlation_record(m_row, l_row)>>
              ELSE CorrelateLogs_first_match(m_row, l_rows, j + 1)

\* the inner loop of correlate, lines 113-149, from log row j on
RECURSIVE CorrelateLogs(_, _, _)
CorrelateLogs(m_row, l_rows, j) ==
    IF j > Len(l_rows)
    THEN <<>>
    ELSE LET l_row == l_rows[j]
             rest == CorrelateLogs(m_row, l_rows, j + 1) IN
         IF l_row.timestamp = NaT
         THEN rest
         ELSE IF WithinWindow(Abs(m_row.time_stamp[1] - l_row.timestamp[1]))
              THEN <<correlation_record(m_row, l_row)>> \o rest
              ELSE rest

\* an outer loop that gives up at the first anomaly without a timestamp
RECURSIVE CorrelateMetrics_stop_at_null(_, _, _)
CorrelateMetrics_stop_at_null(m_rows, l_rows, i) ==
    IF i > Len(m_rows)
    THEN <<>>
    ELSE IF m_rows[i].time_stamp = NaT
         THEN <<>>
         ELSE CorrelateLogs(m_rows[i], l_rows, 1)
                 \o CorrelateMetrics_stop_at_null(m_rows, l_rows, i + 1)

\* the outer loop of correlate, lines 100-154, from anomaly row i on
RECURSIVE CorrelateMetrics(_, _, _)
CorrelateMetrics(m_rows, l_rows, i) ==
    IF i > Len(m_rows)
    THEN <<>>
    ELSE LET m_row == m_rows[i]
             rest == CorrelateMetrics(m_rows, l_rows, i + 1) IN
         IF m_row.time_stamp = NaT
         THEN rest
         ELSE CorrelateLogs(m_row, l_rows, 1) \o rest

\* processed_pairs: the pairs whose two timestamps are present
ProcessedPairs(m_rows, l_rows) ==
    Cardinality({<<i, j>> \in (1..Len(m_rows)) \X (1..Len(l_rows)) :
                    m_rows[i].time_stamp # NaT /\ l_rows[j].timestamp # NaT})

CorrelatedColumns(rows) ==
    IF Len(rows) = 0
    THEN CorrelationColumns
    ELSE CorrelationColumns \cup {"time_diff_seconds"}

\* correlate(metric_anomalies, log_anomalies), lines 56-169
correlate(m_df, l_df) ==
    IF m_df.kind # "DataFrame" \/ l_df.kind # "DataFrame"
    THEN Raised("TypeError")
    ELSE IF IsEmpty(m_df) \/ IsEmpty(l_df)
         THEN Returned(DataFrame(CorrelationColumns, <<>>), <<0, 0>>)
         ELSE IF MetricColumns \ m_df.columns # {}
                 \/ {"timestamp", "service", "message"} \ l_df.columns # {}
              THEN Raised("ValueError")
              ELSE LET rows == CorrelateMetrics(m_df.rows, l_df.rows, 1) IN
                   Returned(DataFrame(CorrelatedColumns(rows), rows),
                            <<ProcessedPairs(m_df.rows, l_df.rows), 0>>)

LogRow(t, lvl, msg, s) ==
    [timestamp |-> t, level |-> lvl, message |-> msg, service |-> s]

\* anomalies as metric_anomaly returns them: above their threshold
AnomalyRows ==
    {MetricRow(t, s, "cpu_pct", Num(90)) :
        t \in {NaT, <<0>>, <<10>>}, s \in {"api", "database"}}

\* error-level log lines on both sides of the window boundary
ErrorLogRows ==
    {LogRow(t, "ERROR", "timeout", "api") : t \in {NaT, <<4>>, <<5>>, <<6>>}}

\* a call of correlate
Correlate ==
    /\ c_pc = "ready"
    /\ correlate_result' = correlate(metric_anomalies, log_anomalies)
    /\ c_pc' = "returned"
    /\ UNCHANGED <<metric_anomalies, log_anomalies, config_vars, resolver_vars, detect_vars,
                   analyze_vars, bulk_vars, mock_vars,
                   main_vars>>

----------------------------------------------------------------------------
(* The providers: what one HTTP request can come back with *)

TransportFailures == {"timeout", "connection_error", "http_error"}

Outcome(kind, text) == [kind |-> kind, text |-> text]

\* one REMOTE request: a transport / status failure, or a 2xx response whose
\* body has a recommendation (possibly empty), is a JSON object without the
\* field, is not JSON, carries a recommendation that is not a string, or is
\* JSON but not an object (null, a number)
RemoteOutcomes ==
    {Outcome(f, "") : f \in TransportFailures}
    \cup {Outcome("ok", t) : t \in {"remote advice", ""}}
    \cup {Outcome(b, "") : b \in {"missing_field", "bad_json", "bad_type", "not_object"}}

\* one LLM request: a failure, or a 2xx response with some content
LLMOutcomes ==
    {Outcome(f, "") : f \in TransportFailures \cup {"parse_error", "no_content", "bad_type"}}
    \cup {Outcome("ok", t) : t \in {" llm advice ", "   ", ""}}

\* str.strip() on the contents the LLM can return
Strip(s) ==
    CASE s = " llm advice " -> "llm advice"
      [] s = "   " -> ""
      [] OTHER -> s

\* RecommendationsAPI.get_recommendations, lines 157-171: the parse of a 2xx
\* response.  A ValueError from response.json() gives None; a recommendation
\* that cannot be sliced raises TypeError, which this method does not catch.
ParseResponse(o) ==
    CASE o.kind = "ok" -> Str(o.text)
      [] o.kind = "missing_field" -> None
      [] o.kind = "bad_json" -> None
      [] o.kind = "not_object" -> Raise("TypeError")
      [] OTHER -> Raise("TypeError")

\* a get_recommendations that swallows APIError whatever fallback_enabled says
ApiErrorResult_swallowed == None

\* RecommendationsAPI.get_recommendations, lines 173-180: all attempts failed
ApiErrorResult ==
    IF ~API_CONFIG.fallback_enabled THEN Raise("APIError") ELSE None

\* a recommend that lets the failure of its request escape
LLMResult_propagates(o) ==
    IF o.kind = "ok"
    THEN (IF o.text = "" THEN None ELSE Str(Strip(o.text)))
    ELSE Raise(o.kind)

\* LLMProvider.recommend lines 241-255 on the response of the one request
LLMResult(o) ==
    IF o.kind = "ok"
    THEN (IF o.text = "" THEN None ELSE Str(Strip(o.text)))
    ELSE None

Event(ev, o) == [ev |-> ev, out |-> o]

NoOutcome == Outcome("", "")

----------------------------------------------------------------------------
(* get_recommendation_with_fallback *)

Services == {"api", "database", "frontend", "cache"}

MetricNames == {"cpu_pct", "latency_ms"}

NoArgs == [service |-> "", anomaly_count |-> 0, metric_name |-> "", metric_value |-> 0]

\* an entry that ignores llm_only and always starts at the REMOTE tier
BeginResolve_ignores_llm_only(args) ==
    /\ r_args' = args
    /\ r_pc' = "remote"
    /\ attempt' = 0
    /\ trace' = <<>>
    /\ api_recommendation' = None
    /\ llm_rec' = None
    /\ r_result' = None

\* entry of get_recommendation_with_fallback, lines 335-338
BeginResolve(args) ==
    /\ r_args' = args
    /\ r_pc' = IF LLM_CONFIG.llm_only THEN "llm" ELSE "remote"
    /\ attempt' = 0
    /\ trace' = <<>>
    /\ api_recommendation' = None
    /\ llm_rec' = None
    /\ r_result' = None

CallResolve ==
    /\ r_pc = "idle"
    /\ \E s \in Services, c \in 0..MaxCount, m \in MetricNames :
          BeginResolve([service |-> s, anomaly_count |-> c,
                        metric_name |-> m, metric_value |-> 90])
    /\ UNCHANGED <<n_requests, outside_resolver>>

\* a loop over range(retry_attempts): one attempt short
MoreAttempts_one_short == attempt + 1 < API_CONFIG.retry_attempts

\* a loop that allows one attempt more than retry_attempts + 1
MoreAttempts_one_more == attempt <= API_CONFIG.retry_attempts

\* _make_request lines 71 and 110: `for attempt in range(retry_attempts + 1)`
\* has another iteration after the current one
MoreAttempts == attempt < API_CONFIG.retry_attempts

\* get_recommendation_with_fallback lines 352-353: `except Exception` around
\* the REMOTE tier catches whatever get_recommendations raises
CaughtByResolver(x) == x.k = "raise"

\* a caller that goes on to the LLM tier whatever REMOTE returned
AfterRemote_always_llm(x) ==
    /\ api_recommendation' = x
    /\ r_pc' = "llm"
    /\ UNCHANGED r_result

\* get_recommendation_with_fallback lines 341-353 once get_recommendations
\* has ended with x (a value or an exception)
AfterRemote(x) ==
    /\ api_recommendation' = x
    /\ IF x.k = "raise" /\ ~CaughtByResolver(x)
       THEN r_pc' = "done" /\ r_result' = x
       ELSE IF Truthy(x)
            THEN r_pc' = "done" /\ r_result' = x
            ELSE r_pc' = "llm" /\ UNCHANGED r_result

\* an attempt loop that also retries a 2xx response without a usable body
RemoteAttempt_retries_soft_failure ==
    /\ r_pc = "remote"
    /\ \E o \in RemoteOutcomes :
        /\ trace' = Append(trace, Event("REMOTE", o))
        /\ n_requests' = n_requests + 1
        /\ IF o.kind \in TransportFailures \cup {"missing_field", "bad_json"}
           THEN IF MoreAttempts
                THEN /\ r_pc' = "sleep"
                     /\ UNCHANGED <<api_recommendation, r_result>>
                ELSE AfterRemote(IF o.kind \in TransportFailures
                                 THEN ApiErrorResult ELSE ParseResponse(o))
           ELSE AfterRemote(ParseResponse(o))
    /\ UNCHANGED <<r_args, attempt, llm_rec, outside_resolver>>

\* one iteration of the loop of _make_request, and, when the loop ends, the
\* rest of get_recommendations and the `if api_recommendation:` of the caller
RemoteAttempt ==
    /\ r_pc = "remote"
    /\ \E o \in RemoteOutcomes :
        /\ trace' = Append(trace, Event("REMOTE", o))
        /\ n_requests' = n_requests + 1
        /\ IF o.kind \in TransportFailures
           THEN IF MoreAttempts
                THEN /\ r_pc' = "sleep"
                     /\ UNCHANGED <<api_recommendation, r_result>>
                ELSE AfterRemote(ApiErrorResult)
           ELSE AfterRemote(ParseResponse(o))
    /\ UNCHANGED <<r_args, attempt, llm_rec, outside_resolver>>

\* a retry that starts at once, without the sleep
RemoteSleep_no_delay ==
    /\ r_pc = "sleep"
    /\ attempt' = attempt + 1
    /\ r_pc' = "remote"
    /\ UNCHANGED <<trace, r_args, api_recommendation, llm_rec, r_result, n_requests,
                   outside_resolver>>

\* _make_request lines 110-112: time.sleep(retry_delay), then the next attempt
RemoteSleep ==
    /\ r_pc = "sleep"
    /\ trace' = Append(trace, Event("SLEEP", NoOutcome))
    /\ attempt' = attempt + 1
    /\ r_pc' = "remote"
    /\ UNCHANGED <<r_args, api_recommendation, llm_rec, r_result, n_requests, outside_resolver>>

\* LLMProvider.recommend from get_recommendation_with_fallback, lines 356-368
LLMRecommend ==
    /\ r_pc = "llm"
    /\ IF ~LLM_CONFIG.enabled \/ LLM_CONFIG.api_key = ""
       THEN /\ llm_rec' = None
            /\ r_pc' = "local"
            /\ UNCHANGED <<trace, r_result, n_requests>>
       ELSE \E o \in LLMOutcomes :
            /\ trace' = Append(trace, Event("LLM", o))
            /\ n_requests' = n_requests + 1
            /\ llm_rec' = LLMResult(o)
            /\ IF Truthy(LLMResult(o))
               THEN r_pc' = "done" /\ r_result' = LLMResult(o)
               ELSE r_pc' = "local" /\ UNCHANGED r_result
    /\ UNCHANGED <<r_args, attempt, api_recommendation, outside_resolver>>

\* get_recommendation_with_fallback lines 370-373
LocalFallback ==
    /\ r_pc = "local"
    /\ trace' = Append(trace, Event("LOCAL", NoOutcome))
    /\ r_result' = Str(get_recommendation(r_args.service))
    /\ r_pc' = "done"
    /\ UNCHANGED <<r_args, attempt, api_recommendation, llm_rec, n_requests, outside_resolver>>

----------------------------------------------------------------------------
(* root_cause.py *)

\* the service names in the order groupby sorts its keys
KeyOrder == <<"api", "cache", "database", "frontend">>

\* the number of correlation rows of a service
GroupSize(rows, service) ==
    Len(SelectSeq(rows, LAMBDA row : row.metric_service = service))

\* groupby('metric_service').size().reset_index(name='anomaly_count'),
\* line 83: one row per service present, in key order
groupby_size(rows) ==
    LET present == SelectSeq(KeyOrder, LAMBDA s : GroupSize(rows, s) > 0) IN
    [i \in 1..Len(present) |->
        [metric_service |-> present[i], anomaly_count |-> GroupSize(rows, present[i])]]

\* an ordering by ascending count
Ascending(ranking) ==
    \A i, j \in 1..Len(ranking) :
        i < j => ranking[i].anomaly_count <= ranking[j].anomaly_count

\* sort_values(by='anomaly_count', ascending=False), line 84: the order asked for
Descending(ranking) ==
    \A i, j \in 1..Len(ranking) :
        i < j => ranking[i].anomaly_count >= ranking[j].anomaly_count

\* sort_values with its default kind='quicksort', which is not a stable sort:
\* every descending arrangement of the groups is a possible result
sort_values(grouped) ==
    {ranking \in {[i \in 1..Len(grouped) |-> grouped[f[i]]] :
                     f \in Permutations(1..Len(grouped))} : Descending(ranking)}

\* a mean, kept exact as sum over count
Mean(sum, n) == [sum |-> sum, n |-> n]

RECURSIVE SumValues(_)
SumValues(rows) ==
    IF Len(rows) = 0 THEN 0 ELSE Head(rows).metric_value.n + SumValues(Tail(rows))

\* a context that takes the metric of the service's latest correlation
service_context_latest_metric(rows, rank_row) ==
    LET service_correlations ==
            SelectSeq(rows, LAMBDA row : row.metric_service = rank_row.metric_service) IN
    [service |-> rank_row.metric_service,
     anomaly_count |-> rank_row.anomaly_count,
     metric_name |-> service_correlations[Len(service_correlations)].metric_name,
     metric_value |-> Mean(SumValues(service_correlations), Len(service_correlations))]

\* analyze_root_cause lines 98-112: the context of one ranked service
service_context(rows, rank_row) ==
    LET service_correlations ==
            SelectSeq(rows, LAMBDA row : row.metric_service = rank_row.metric_service) IN
    [service |-> rank_row.metric_service,
     anomaly_count |-> rank_row.anomaly_count,
     metric_name |-> service_correlations[1].metric_name,
     metric_value |-> Mean(SumValues(service_correlations), Len(service_correlations))]

ServicesData(rows, ranking) ==
    [i \in 1..Len(ranking) |-> service_context(rows, ranking[i])]

\* the set of metric names of the rows
MetricsInvolved(rows) == {rows[i].metric_name : i \in 1..Len(rows)}

\* analyze_root_cause lines 61-69: what an empty input returns
EmptyAnalysis ==
    [status |-> "ok",
     service_rankings |-> <<>>,
     recommendations |-> <<>>,
     summary_stats |-> [total_correlations |-> 0,
                        services_affected |-> 0,
                        metrics_involved |-> 0]]

\* a summary that reports the last ranking entry as the top service
Analysis_last_entry_on_top(rows, ranking, recs) ==
    [status |-> "ok",
     service_rankings |-> ranking,
     recommendations |-> recs,
     summary_stats |->
        [total_correlations |-> Len(rows),
         services_affected |-> Len(ranking),
         metrics_involved |-> Cardinality(MetricsInvolved(rows)),
         most_problematic_service |->
            IF Len(ranking) > 0 THEN ranking[Len(ranking)].metric_service ELSE NaN,
         highest_anomaly_count |->
            IF Len(ranking) > 0 THEN ranking[Len(ranking)].anomaly_count ELSE 0]]

\* analyze_root_cause lines 140-155
Analysis(rows, ranking, recs) ==
    [status |-> "ok",
     service_rankings |-> ranking,
     recommendations |-> recs,
     summary_stats |->
        [total_correlations |-> Len(rows),
         services_affected |-> Len(ranking),
         metrics_involved |-> Cardinality(MetricsInvolved(rows)),
         most_problematic_service |->
            IF Len(ranking) > 0 THEN ranking[1].metric_service ELSE NaN,
         highest_anomaly_count |->
            IF Len(ranking) > 0 THEN ranking[1].anomaly_count ELSE 0]]

AnalysisRaised(e) ==
    [status |-> e, service_rankings |-> <<>>, recommendations |-> <<>>,
     summary_stats |-> <<>>]

\* generate_incident_report line 241
NoIncidentReport ==
    [kind |-> "No incidents detected - system operating normally."]

\* generate_incident_report lines 246-270: the lines of the report (the
\* analysis time line is left out)
IncidentReport(analysis) ==
    [kind |-> "=== WAR ROOM AI INCIDENT REPORT ===",
     total_correlations |-> analysis.summary_stats.total_correlations,
     services_affected |-> analysis.summary_stats.services_affected,
     most_problematic_service |-> analysis.summary_stats.most_problematic_service,
     highest_anomaly_count |-> analysis.summary_stats.highest_anomaly_count,
     service_rankings |-> analysis.service_rankings,
     recommendations |-> analysis.recommendations]

\* generate_incident_report lines 272-274
ErrorReport(e) == [kind |-> "Error generating incident report", error |-> e]

NoReport == [kind |-> ""]

\* analyze_root_cause lines 125-136: the entry of one service
recommendation_entry(result, anomaly_count) ==
    [recommendation |->
        IF result.k = "raise" THEN "No predefined recommendation available." ELSE result.v,
     anomaly_count |-> anomaly_count]

\* the end of analyze_root_cause and, when it was called from there, of
\* generate_incident_report
FinishAnalysis(analysis) ==
    /\ analysis_result' = analysis
    /\ report' = IF a_entry = "generate_incident_report"
                 THEN (IF analysis.status = "ok"
                       THEN IncidentReport(analysis)
                       ELSE ErrorReport(analysis.status))
                 ELSE report
    /\ a_pc' = "returned"

\* analyze_root_cause up to its first recommendation request (lines 52-119),
\* entered directly or through generate_incident_report (lines 240-244)
AnalyzeBegin ==
    /\ a_pc = "ready"
    /\ IF a_entry = "generate_incident_report" /\ IsEmpty(correlated_df)
       THEN /\ report' = NoIncidentReport
            /\ a_pc' = "returned"
            /\ UNCHANGED <<service_rankings, services_data, a_idx, service_recommendations,
                           analysis_result, resolver_vars>>
       ELSE IF correlated_df.kind # "DataFrame"
       THEN /\ FinishAnalysis(AnalysisRaised("TypeError"))
            /\ UNCHANGED <<service_rankings, services_data, a_idx, service_recommendations,
                           resolver_vars>>
       ELSE IF IsEmpty(correlated_df)
       THEN /\ FinishAnalysis(EmptyAnalysis)
            /\ UNCHANGED <<service_rankings, services_data, a_idx, service_recommendations,
                           resolver_vars>>
       ELSE IF {"metric_service", "metric_name", "log_service", "log_message"}
                  \ correlated_df.columns # {}
       THEN /\ FinishAnalysis(AnalysisRaised("ValueError"))
            /\ UNCHANGED <<service_rankings, services_data, a_idx, service_recommendations,
                           resolver_vars>>
       ELSE \E ranking \in sort_values(groupby_size(correlated_df.rows)) :
            /\ service_rankings' = ranking
            /\ services_data' = ServicesData(correlated_df.rows, ranking)
            /\ service_recommendations' = <<>>
            /\ a_idx' = 1
            /\ IF Len(ranking) = 0
               THEN /\ FinishAnalysis(Analysis(correlated_df.rows, ranking, <<>>))
                    /\ UNCHANGED resolver_vars
               ELSE /\ BeginResolve(ServicesData(correlated_df.rows, ranking)[1])
                    /\ a_pc' = "resolving"
                    /\ UNCHANGED <<n_requests, analysis_result, report>>
    /\ UNCHANGED <<a_entry, correlated_df, config_vars, detect_vars, correlate_vars,
                   bulk_vars, mock_vars,
                   main_vars>>

\* analyze_root_cause lines 119-155: a recommendation came back; ask for the
\* next service's, or build the summary and return
AnalyzeCollect ==
    /\ a_pc = "resolving"
    /\ r_pc = "done"
    /\ LET item == services_data[a_idx]
           recs == (item.service :> recommendation_entry(r_result, item.anomaly_count))
                      @@ service_recommendations IN
        /\ service_recommendations' = recs
        /\ IF a_idx < Len(services_data)
           THEN /\ a_idx' = a_idx + 1
                /\ BeginResolve(services_data[a_idx + 1])
                /\ UNCHANGED <<a_pc, analysis_result, report, n_requests>>
           ELSE /\ FinishAnalysis(Analysis(correlated_df.rows, service_rankings, recs))
                /\ UNCHANGED <<a_idx, resolver_vars>>
    /\ UNCHANGED <<a_entry, correlated_df, service_rankings, services_data,
                   config_vars, detect_vars, correlate_vars, bulk_vars, mock_vars,
                   main_vars>>

\* one correlation record, as correlate emits it
CorrelationRow(s, m, v) ==
    [timestamp |-> <<0>>, metric_service |-> s, metric_name |-> m, metric_value |-> v,
     log_service |-> "api", log_message |-> "timeout", time_diff_seconds |-> 2]

CorrelationRows ==
    {CorrelationRow(s, "cpu_pct", Num(90)) : s \in {"api", "database"}}
    \cup {CorrelationRow(s, "latency_ms", Num(400)) : s \in {"api", "frontend"}}

\* the frames correlate returns: six columns when empty, seven otherwise
CorrelatedFrames ==
    {DataFrame(CorrelatedColumns(rows), WithIndex(rows)) :
        rows \in SeqUpTo(CorrelationRows, MaxCorr)}

----------------------------------------------------------------------------
(* get_bulk_recommendations_with_fallback *)

\* the methods of the two client classes of api_service.py, as the file
\* indents them: get_bulk_recommendations and health_check sit in the body of
\* class LLMProvider (lines 257-318)
RecommendationsAPI_methods == {"__init__", "_make_request", "get_recommendations"}

LLMProvider_methods == {"__init__", "recommend", "get_bulk_recommendations", "health_check"}

\* one item of services_data; service "" stands for an item without a service
BulkItem(s) == [service |-> s, anomaly_count |-> 1, metric_name |-> "cpu_pct",
                metric_value |-> Mean(90, 1)]

BulkItems == {BulkItem(s) : s \in {"api", "database", "cache", ""}}

\* dict assignment d[key] = value
DictSet(d, key, value) == (key :> value) @@ d

\* lines 423-433: the LOCAL text of every named service of the list
RECURSIVE fallback_recommendations(_)
fallback_recommendations(items) ==
    IF Len(items) = 0
    THEN <<>>
    ELSE LET service == items[Len(items)].service
             before == fallback_recommendations(SubSeq(items, 1, Len(items) - 1)) IN
         IF service # ""
         THEN DictSet(before, service, get_recommendation(service))
         ELSE before

\* lines 417-433 once the LLM loop is over: the LLM results if there are
\* any, the LOCAL table otherwise
BulkReturn(llm_results) ==
    IF DOMAIN llm_results # {}
    THEN llm_results
    ELSE fallback_recommendations(b_services_data)

\* entry of get_bulk_recommendations_with_fallback, lines 386-404: the REMOTE
\* block looks get_bulk_recommendations up on a RecommendationsAPI, which
\* raises AttributeError before any request is made; line 398 catches it
BulkBegin ==
    /\ b_pc = "ready"
    /\ LLM_CONFIG.llm_only \/ "get_bulk_recommendations" \notin RecommendationsAPI_methods
    /\ results' = <<>>
    /\ b_idx' = 1
    /\ IF Len(b_services_data) = 0
       THEN b_pc' = "returned" /\ b_return' = BulkReturn(<<>>)
       ELSE b_pc' = "llm" /\ UNCHANGED b_return
    /\ UNCHANGED <<b_services_data, config_vars, resolver_vars, detect_vars, correlate_vars,
                   analyze_vars, mock_vars,
                   main_vars>>

\* one iteration of the LLM loop, lines 405-416, and after the last one the
\* rest of the function
BulkLLMItem ==
    /\ b_pc = "llm"
    /\ LET item == b_services_data[b_idx]
           request == item.service # "" /\ LLM_CONFIG.enabled /\ LLM_CONFIG.api_key # "" IN
       \E o \in IF request THEN LLMOutcomes ELSE {NoOutcome} :
          LET rec == IF request THEN LLMResult(o) ELSE None
              new_results == IF item.service # "" /\ Truthy(rec)
                             THEN DictSet(results, item.service, rec.v)
                             ELSE results IN
            /\ trace' = IF request THEN Append(trace, Event("LLM", o)) ELSE trace
            /\ n_requests' = IF request THEN n_requests + 1 ELSE n_requests
            /\ llm_rec' = rec
            /\ results' = new_results
            /\ IF b_idx < Len(b_services_data)
               THEN b_idx' = b_idx + 1 /\ UNCHANGED <<b_pc, b_return>>
               ELSE /\ b_pc' = "returned"
                    /\ b_return' = BulkReturn(new_results)
                    /\ UNCHANGED b_idx
    /\ UNCHANGED <<b_services_data, r_pc, r_args, attempt, api_recommendation, r_result,
                   config_vars, detect_vars, correlate_vars, analyze_vars, mock_vars,
                   main_vars>>

----------------------------------------------------------------------------
(* mock_api_server.py *)

MOCK_RECOMMENDATIONS ==
    [api |-> <<"Check API latency and backend dependencies. Possible timeout or overload.",
               "Investigate API gateway configuration and load balancer settings.",
               "Review API rate limiting and throttling policies.",
               "Check for database connection pool exhaustion affecting API performance.">>,
     database |-> <<"Database CPU or query latency spikes - consider indexing or connection pooling.",
                    "Review slow query logs and optimize database performance.",
                    "Check database connection limits and consider scaling.",
                    "Investigate potential deadlocks or long-running transactions.">>,
     frontend |-> <<"Frontend response time high - check for slow API calls or JavaScript rendering bottlenecks.",
                    "Review frontend bundle size and optimize asset loading.",
                    "Check for memory leaks in JavaScript applications.",
                    "Investigate CDN performance and caching strategies.">>]

ApiModes == {"normal", "slow", "error", "timeout"}

\* lines 90-97: which of the four texts a count selects (Python index + 1)
mock_selection(anomaly_count) ==
    IF anomaly_count >= 10 THEN 1
    ELSE IF anomaly_count >= 5 THEN 2
    ELSE IF anomaly_count >= 2 THEN 3
    ELSE 4

\* line 107: the 'severity' field of the response
mock_severity(anomaly_count) ==
    IF anomaly_count >= 10 THEN "high"
    ELSE IF anomaly_count >= 5 THEN "medium"
    ELSE "low"

MockError(status, error) ==
    [status |-> status, error |-> error, recommendation |-> "", detected |-> <<>>,
     service |-> "", anomaly_count |-> 0, severity |-> ""]

\* the JSON body of a request; service "" and metric_name "" stand for absent
\* keys, and an absent anomaly_count reads as 0 (line 68)
MockRequests ==
    [empty : {FALSE}, service : {"api", "database", "frontend", "cache", ""},
     anomaly_count : 0..MaxMockCount, metric_name : {"", "cpu_pct"}, metric_value : {0, 90}]
    \cup {[empty |-> TRUE, service |-> "", anomaly_count |-> 0, metric_name |-> "",
           metric_value |-> 0]}

\* get_recommendation of the mock server, lines 61-114
mock_get_recommendation(data, mode) ==
    IF data.empty
    THEN MockError(400, "No JSON data provided")
    ELSE IF mode = "error"
    THEN MockError(500, "Internal server error")
    ELSE IF data.service = ""
    THEN MockError(400, "Service name is required")
    ELSE IF data.service \in DOMAIN MOCK_RECOMMENDATIONS
    THEN [status |-> 200, error |-> "",
          recommendation |-> MOCK_RECOMMENDATIONS[data.service][mock_selection(data.anomaly_count)],
          detected |-> IF data.metric_name # "" /\ data.metric_value # 0
                       THEN <<data.metric_name, data.metric_value>>
                       ELSE <<>>,
          service |-> data.service,
          anomaly_count |-> data.anomaly_count,
          severity |-> mock_severity(data.anomaly_count)]
    ELSE MockError(404, "Unknown service")

NoResponse == MockError(0, "")

\* POST /api/v1/recommendations
MockGetRecommendation ==
    /\ \E data \in MockRequests : mock_response' = mock_get_recommendation(data, API_MODE)
    /\ UNCHANGED <<API_MODE, config_vars, resolver_vars, detect_vars, correlate_vars,
                   analyze_vars, bulk_vars, main_vars>>

\* POST /api/mode, lines 180-192
MockSetApiMode ==
    /\ \E mode \in ApiModes \cup {"other"} :
          IF mode \in ApiModes
          THEN API_MODE' = mode /\ mock_response' = MockError(200, "")
          ELSE API_MODE' = API_MODE /\ mock_response' = MockError(400, "Invalid mode")
    /\ UNCHANGED <<config_vars, resolver_vars, detect_vars, correlate_vars,
                   analyze_vars, bulk_vars, main_vars>>

----------------------------------------------------------------------------
(* config.py at import: validate_config *)

\* a key that is absent from a dict
Missing == [k |-> "missing", n |-> 0]

\* a bool value
Bool == [k |-> "bool", n |-> 1]

\* isinstance(x, (int, float))
IsNumber(x) == x.k = "num"

\* BASE_DATE as year, month, day and the separator written between them
DateText(sep, y, m, d) == [sep |-> sep, y |-> y, m |-> m, d |-> d]

\* datetime.strptime(BASE_DATE, "%Y-%m-%d") succeeds
strptime_ok(date) ==
    date.sep = "-" /\ date.m \in 1..12 /\ date.d \in 1..31

\* the module-level values of config.py as written in the file
config_module ==
    [thresholds |-> [cpu_pct |-> Num(85),
                     latency_ms |-> [kind |-> "dict",
                                     map |-> [frontend |-> Num(350), api |-> Num(350),
                                              database |-> Num(200)]]],
     correlation_window |-> Num(5),
     BASE_DATE |-> DateText("-", 2025, 10, 12),
     recommendations |-> config_recommendations,
     API_CONFIG |-> [base_url |-> Num(1), recommendations_endpoint |-> Num(1),
                     timeout |-> Num(3), retry_attempts |-> Num(0),
                     retry_delay |-> Num(1), fallback_enabled |-> Bool]]

\* the required keys of API_CONFIG, line 126
required_api_keys ==
    {"base_url", "recommendations_endpoint", "timeout", "retry_attempts", "retry_delay",
     "fallback_enabled"}

\* validate_config, lines 90-145: "ok" when it returns True, otherwise the
\* exception it raises
validate_config(cfg) ==
    IF cfg.thresholds.cpu_pct = Missing
    THEN "KeyError"
    ELSE IF ~IsNumber(cfg.thresholds.cpu_pct)
            \/ cfg.thresholds.cpu_pct.n <= 0 \/ cfg.thresholds.cpu_pct.n > 100
    THEN "ValueError"
    ELSE IF cfg.thresholds.latency_ms.kind # "dict"
    THEN "ValueError"
    ELSE IF \E service \in DOMAIN cfg.thresholds.latency_ms.map :
               LET threshold == cfg.thresholds.latency_ms.map[service] IN
               ~IsNumber(threshold) \/ threshold.n <= 0
    THEN "ValueError"
    ELSE IF ~IsNumber(cfg.correlation_window) \/ cfg.correlation_window.n <= 0
    THEN "ValueError"
    ELSE IF ~strptime_ok(cfg.BASE_DATE)
    THEN "ValueError"
    ELSE IF \E service \in DOMAIN cfg.recommendations :
               Strip(cfg.recommendations[service]) = ""
    THEN "ValueError"
    ELSE IF \E key \in required_api_keys : cfg.API_CONFIG[key] = Missing
    THEN "ValueError"
    ELSE IF ~IsNumber(cfg.API_CONFIG.timeout) \/ cfg.API_CONFIG.timeout.n <= 0
    THEN "ValueError"
    ELSE IF ~IsNumber(cfg.API_CONFIG.retry_attempts) \/ cfg.API_CONFIG.retry_attempts.n < 0
    THEN "ValueError"
    ELSE IF cfg.API_CONFIG.fallback_enabled.k # "bool"
    THEN "ValueError"
    ELSE "ok"

\* the import of config.py, lines 189-194: validate_config runs once, and an
\* exception it raises ends the program before main() is entered
ImportConfig ==
    /\ m_pc = "import"
    /\ validate_result' = validate_config(raw_config)
    /\ m_pc' = IF validate_config(raw_config) = "ok" THEN "main" ELSE "stopped"
    /\ UNCHANGED <<raw_config, logs, warnings_df, config_vars, resolver_vars, detect_vars,
                   correlate_vars, analyze_vars, bulk_vars, mock_vars>>

\* the values a configuration file may carry
ConfigCandidates ==
    {[thresholds |-> [cpu_pct |-> cpu,
                      latency_ms |-> [kind |-> lkind,
                                      map |-> [frontend |-> Num(350), api |-> Num(350),
                                               database |-> ldb]]],
      correlation_window |-> window,
      BASE_DATE |-> date,
      recommendations |-> [config_recommendations EXCEPT !.api = text],
      API_CONFIG |-> [base_url |-> Num(1), recommendations_endpoint |-> Num(1),
                      timeout |-> timeout, retry_attempts |-> attempts,
                      retry_delay |-> delay, fallback_enabled |-> fallback]] :
        cpu \in {Num(85), Num(0), Num(101), NotANumber, Missing},
        lkind \in {"dict", "scalar"},
        ldb \in {Num(200), Num(0), NotANumber},
        window \in {Num(5), Num(0), NotANumber},
        date \in {DateText("-", 2025, 10, 12), DateText("/", 2025, 10, 12)},
        text \in {config_recommendations.api, "", "   "},
        timeout \in {Num(3), Num(0), Missing},
        attempts \in {Num(0), Num(2), Num(-1), NotANumber},
        delay \in {Num(1), Num(-1), NotANumber, Missing},
        fallback \in {Bool, NotANumber}}

----------------------------------------------------------------------------
(* main.py: the pipeline *)

\* a log level: its characters, or a missing cell
Level(chars) == [na |-> FALSE, chars |-> chars]

NaLevel == [na |-> TRUE, chars |-> <<>>]

\* str.lower() on the letters the levels are written with
LowerChar(c) ==
    CASE c = "E" -> "e" [] c = "R" -> "r" [] c = "O" -> "o" [] c = "I" -> "i"
      [] c = "N" -> "n" [] c = "F" -> "f" [] c = "W" -> "w" [] c = "A" -> "a"
      [] OTHER -> c

Lower(chars) == [i \in 1..Len(chars) |-> LowerChar(chars[i])]

\* Series.str.contains(pattern, case=False, na=False) on one cell
ContainsIgnoreCase(level, pattern) ==
    /\ ~level.na
    /\ \E i \in 1..(Len(level.chars) - Len(pattern) + 1) :
          SubSeq(Lower(level.chars), i, i + Len(pattern) - 1) = Lower(pattern)

\* a filter that lets every log record through
error_level_rows_unfiltered(rows) == rows

\* main line 101: logs[logs['level'].str.contains('ERROR', case=False, na=False)]
error_level_rows(rows) ==
    SelectSeq(rows, LAMBDA row : ContainsIgnoreCase(row.level, <<"E", "R", "R", "O", "R">>))

\* anomaly_detector.log_warn, lines 140-171; main ignores its failure
log_warn(df) ==
    IF df.kind # "DataFrame"
    THEN Raised("TypeError")
    ELSE IF IsEmpty(df)
         THEN Returned(DataFrame(LogColumns, <<>>), <<0, 0>>)
         ELSE IF LogColumns \ df.columns # {}
              THEN Raised("ValueError")
              ELSE Returned(
                     DataFrame(LogColumns,
                               SelectSeq(df.rows,
                                         LAMBDA row : ContainsIgnoreCase(row.level,
                                                                         <<"W", "A", "R", "N">>))),
                     <<0, 0>>)

\* main lines 83-124: with the metrics and the logs loaded, keep the
\* error-level log records, show the warnings, and call metric_anomaly
MainFilterLogs ==
    /\ m_pc = "main"
    /\ log_anomalies' = DataFrame(LogColumns, error_level_rows(logs.rows))
    /\ warnings_df' = log_warn(logs).df
    /\ d_pc' = "ready"
    /\ m_pc' = "detect"
    /\ UNCHANGED <<metrics_df, detect_result, c_pc, metric_anomalies, correlate_result,
                   raw_config, validate_result, logs,
                   config_vars, resolver_vars, analyze_vars, bulk_vars, mock_vars>>

\* main lines 124-143: metric_anomaly is back; exit on its exception,
\* otherwise call correlate on its anomalies and the error-level logs
MainAfterDetect ==
    /\ m_pc = "detect"
    /\ d_pc = "returned"
    /\ IF detect_result.status # "ok"
       THEN /\ m_pc' = "exit"
            /\ UNCHANGED <<metric_anomalies, c_pc>>
       ELSE /\ metric_anomalies' = detect_result.df
            /\ c_pc' = "ready"
            /\ m_pc' = "correlate"
    /\ UNCHANGED <<log_anomalies, correlate_result, raw_config, validate_result, logs,
                   warnings_df, config_vars, resolver_vars, detect_vars, analyze_vars,
                   bulk_vars, mock_vars>>

\* main lines 143-155: correlate is back; exit on its exception, otherwise
\* call analyze_root_cause on the correlations
MainAfterCorrelate ==
    /\ m_pc = "correlate"
    /\ c_pc = "returned"
    /\ IF correlate_result.status # "ok"
       THEN /\ m_pc' = "exit"
            /\ UNCHANGED <<a_pc, a_entry, correlated_df>>
       ELSE /\ correlated_df' = correlate_result.df
            /\ a_entry' = "analyze_root_cause"
            /\ a_pc' = "ready"
            /\ m_pc' = "analyze"
    /\ UNCHANGED <<service_rankings, services_data, a_idx, service_recommendations,
                   analysis_result, report, raw_config, validate_result, logs, warnings_df,
                   config_vars, resolver_vars, detect_vars, correlate_vars,
                   bulk_vars, mock_vars>>

\* main lines 155-167: analyze_root_cause is back; the pipeline is complete,
\* or exits with status 1 on its exception
MainFinish ==
    /\ m_pc = "analyze"
    /\ a_pc = "returned"
    /\ m_pc' = IF analysis_result.status = "ok" THEN "done" ELSE "exit"
    /\ UNCHANGED <<raw_config, validate_result, logs, warnings_df, config_vars,
                   resolver_vars, detect_vars, correlate_vars, analyze_vars,
                   bulk_vars, mock_vars>>

\* the metric records main loads
MainMetricRows ==
    {MetricRow(<<0>>, "api", "cpu_pct", Num(90)),
     MetricRow(<<0>>, "database", "cpu_pct", Num(80))}

\* the log records main loads: one message per level
MainLogRows ==
    {LogRow(<<3>>, Level(<<"I", "N", "F", "O">>), "started", "api"),
     LogRow(<<3>>, Level(<<"W", "A", "R", "N">>), "slow", "api"),
     LogRow(<<3>>, Level(<<"E", "R", "R", "O", "R">>), "timeout", "api"),
     LogRow(<<3>>, Level(<<"e", "r", "r", "o", "r">>), "refused", "database"),
     LogRow(<<3>>, NaLevel, "garbled", "api")}

----------------------------------------------------------------------------
(* Initial states and specifications *)

ConfigInit ==
    /\ thresholds = config_thresholds
    /\ correlation_window = config_correlation_window
    /\ recommendations = config_recommendations

ResolverIdle ==
    /\ r_pc = "idle"
    /\ r_args = NoArgs
    /\ attempt = 0
    /\ trace = <<>>
    /\ api_recommendation = None
    /\ llm_rec = None
    /\ r_result = None
    /\ n_requests = 0

DetectIdle ==
    /\ d_pc = "idle"
    /\ metrics_df = DataFrame({}, <<>>)
    /\ detect_result = NotCalled

CorrelateIdle ==
    /\ c_pc = "idle"
    /\ metric_anomalies = DataFrame({}, <<>>)
    /\ log_anomalies = DataFrame({}, <<>>)
    /\ correlate_result = NotCalled

AnalyzeIdle ==
    /\ a_pc = "idle"
    /\ a_entry = ""
    /\ correlated_df = DataFrame({}, <<>>)
    /\ service_rankings = <<>>
    /\ services_data = <<>>
    /\ a_idx = 0
    /\ service_recommendations = <<>>
    /\ analysis_result = AnalysisRaised("not called")
    /\ report = NoReport

BulkIdle ==
    /\ b_pc = "idle"
    /\ b_services_data = <<>>
    /\ b_idx = 0
    /\ results = <<>>
    /\ b_return = <<>>

MockIdle ==
    /\ API_MODE = "normal"
    /\ mock_response = NoResponse

MainIdle ==
    /\ m_pc = "idle"
    /\ raw_config = config_module
    /\ validate_result = "not run"
    /\ logs = DataFrame(LogColumns, <<>>)
    /\ warnings_df = DataFrame(LogColumns, <<>>)

InitDetect ==
    /\ ConfigInit
    /\ BulkIdle
    /\ MockIdle
    /\ MainIdle
    /\ AnalyzeIdle
    /\ API_CONFIG = config_API_CONFIG
    /\ LLM_CONFIG = config_LLM_CONFIG
    /\ ResolverIdle
    /\ CorrelateIdle
    /\ d_pc = "ready"
    /\ metrics_df \in {DataFrame(MetricColumns, WithIndex(rows)) :
                          rows \in SeqUpTo(MetricRows, MaxMetrics)}
    /\ detect_result = NotCalled

NextDetect == MetricAnomaly

\* the value of a row restricted to the columns of its frame
RowWithColumns(row, columns) == [c \in columns |-> row[c]]

\* what a caller can hand to metric_anomaly: a frame with any subset of the
\* four columns, with or without rows, or a value that is not a frame
MetricInputs ==
    {DataFrame(columns,
               WithIndex([i \in 1..Len(rows) |-> RowWithColumns(rows[i], columns)])) :
        columns \in SUBSET MetricColumns,
        rows \in SeqUpTo({MetricRow(<<0>>, "api", "cpu_pct", Num(86)),
                          MetricRow(<<0>>, "api", "cpu_pct", Num(85)),
                          MetricRow(<<0>>, "database", "latency_ms", Num(201))},
                         MaxMetrics)}
    \cup {[kind |-> "list", columns |-> {}, rows |-> <<>>]}

InitDetectInput ==
    /\ ConfigInit
    /\ BulkIdle
    /\ MockIdle
    /\ MainIdle
    /\ AnalyzeIdle
    /\ API_CONFIG = config_API_CONFIG
    /\ LLM_CONFIG = config_LLM_CONFIG
    /\ ResolverIdle
    /\ CorrelateIdle
    /\ d_pc = "ready"
    /\ metrics_df \in MetricInputs
    /\ detect_result = NotCalled

SpecDetectInput == InitDetectInput /\ [][NextDetect]_vars

SpecDetect == InitDetect /\ [][NextDetect]_vars

InitCorrelate ==
    /\ ConfigInit
    /\ BulkIdle
    /\ MockIdle
    /\ MainIdle
    /\ AnalyzeIdle
    /\ API_CONFIG = config_API_CONFIG
    /\ LLM_CONFIG = config_LLM_CONFIG
    /\ ResolverIdle
    /\ DetectIdle
    /\ c_pc = "ready"
    /\ metric_anomalies \in {DataFrame(MetricColumns, WithIndex(rows)) :
                                rows \in SeqUpTo(AnomalyRows, MaxAnoms)}
    /\ log_anomalies \in {DataFrame(LogColumns, WithIndex(rows)) :
                                rows \in SeqUpTo(ErrorLogRows, MaxLogs)}
    /\ correlate_result = NotCalled

NextCorrelate == Correlate

SpecCorrelate == InitCorrelate /\ [][NextCorrelate]_vars

InitResolve ==
    /\ ConfigInit
    /\ BulkIdle
    /\ MockIdle
    /\ MainIdle
    /\ AnalyzeIdle
    /\ API_CONFIG \in ApiConfigs
    /\ LLM_CONFIG \in LlmConfigs
    /\ ResolverIdle
    /\ DetectIdle
    /\ CorrelateIdle

NextResolve ==
    \/ CallResolve
    \/ RemoteAttempt
    \/ RemoteSleep
    \/ LLMRecommend
    \/ LocalFallback

SpecResolve == InitResolve /\ [][NextResolve]_vars

\* every request answers or times out (requests' timeout argument), and
\* time.sleep returns: a step of the resolver that is possible is taken
SpecResolveFair ==
    /\ SpecResolve
    /\ WF_vars(RemoteAttempt)
    /\ WF_vars(RemoteSleep)
    /\ WF_vars(LLMRecommend)
    /\ WF_vars(LocalFallback)

\* the report assembler runs under the shipped configuration or under one
\* with a single retry
AnalyzeApiConfigs ==
    {c \in ApiConfigs : c.retry_attempts <= 1 /\ c.fallback_enabled}

InitAnalyze ==
    /\ ConfigInit
    /\ BulkIdle
    /\ MockIdle
    /\ MainIdle
    /\ API_CONFIG \in AnalyzeApiConfigs
    /\ LLM_CONFIG = config_LLM_CONFIG
    /\ ResolverIdle
    /\ DetectIdle
    /\ CorrelateIdle
    /\ a_pc = "ready"
    /\ a_entry \in {"analyze_root_cause", "generate_incident_report"}
    /\ correlated_df \in CorrelatedFrames
    /\ service_rankings = <<>>
    /\ services_data = <<>>
    /\ a_idx = 0
    /\ service_recommendations = <<>>
    /\ analysis_result = AnalysisRaised("not called")
    /\ report = NoReport

NextAnalyze ==
    \/ AnalyzeBegin
    \/ RemoteAttempt
    \/ RemoteSleep
    \/ LLMRecommend
    \/ LocalFallback
    \/ AnalyzeCollect

SpecAnalyze == InitAnalyze /\ [][NextAnalyze]_vars

InitBulk ==
    /\ ConfigInit
    /\ API_CONFIG = config_API_CONFIG
    /\ LLM_CONFIG \in LlmConfigs
    /\ ResolverIdle
    /\ DetectIdle
    /\ CorrelateIdle
    /\ AnalyzeIdle
    /\ MockIdle
    /\ MainIdle
    /\ b_pc = "ready"
    /\ b_services_data \in SeqUpTo(BulkItems, MaxBulk)
    /\ b_idx = 0
    /\ results = <<>>
    /\ b_return = <<>>

NextBulk ==
    \/ BulkBegin
    \/ BulkLLMItem

SpecBulk == InitBulk /\ [][NextBulk]_vars

InitMock ==
    /\ ConfigInit
    /\ API_CONFIG = config_API_CONFIG
    /\ LLM_CONFIG = config_LLM_CONFIG
    /\ ResolverIdle
    /\ DetectIdle
    /\ CorrelateIdle
    /\ AnalyzeIdle
    /\ BulkIdle
    /\ MockIdle
    /\ MainIdle

NextMock ==
    \/ MockGetRecommendation
    \/ MockSetApiMode

SpecMock == InitMock /\ [][NextMock]_vars

InitConfig ==
    /\ ConfigInit
    /\ API_CONFIG = config_API_CONFIG
    /\ LLM_CONFIG = config_LLM_CONFIG
    /\ ResolverIdle
    /\ DetectIdle
    /\ CorrelateIdle
    /\ AnalyzeIdle
    /\ BulkIdle
    /\ MockIdle
    /\ m_pc = "import"
    /\ raw_config \in ConfigCandidates
    /\ validate_result = "not run"
    /\ logs = DataFrame(LogColumns, <<>>)
    /\ warnings_df = DataFrame(LogColumns, <<>>)

NextConfig == ImportConfig

SpecConfig == InitConfig /\ [][NextConfig]_vars

InitMain ==
    /\ ConfigInit
    /\ API_CONFIG \in AnalyzeApiConfigs
    /\ LLM_CONFIG = config_LLM_CONFIG
    /\ ResolverIdle
    /\ CorrelateIdle
    /\ AnalyzeIdle
    /\ BulkIdle
    /\ MockIdle
    /\ d_pc = "idle"
    /\ metrics_df \in {DataFrame(MetricColumns, WithIndex(rows)) :
                          rows \in SeqUpTo(MainMetricRows, MaxMetrics)}
    /\ detect_result = NotCalled
    /\ m_pc = "import"
    /\ raw_config = config_module
    /\ validate_result = "not run"
    /\ logs \in {DataFrame(LogColumns, WithIndex(rows)) :
                    rows \in SeqUpTo(MainLogRows, MaxLogs)}
    /\ warnings_df = DataFrame(LogColumns, <<>>)

NextMain ==
    \/ ImportConfig
    \/ MainFilterLogs
    \/ MetricAnomaly
    \/ MainAfterDetect
    \/ Correlate
    \/ MainAfterCorrelate
    \/ AnalyzeBegin
    \/ RemoteAttempt
    \/ RemoteSleep
    \/ LLMRecommend
    \/ LocalFallback
    \/ AnalyzeCollect
    \/ MainFinish

SpecMain == InitMain /\ [][NextMain]_vars

----------------------------------------------------------------------------
(* Properties of the threshold evaluator and the correlator *)

\* the rows of a returned batch, as a set
RowSet(df) == {df.rows[i] : i \in 1..Len(df.rows)}

\* a metric row whose fields are present, whose value is a number and whose
\* threshold resolves
HasResolvedThreshold(row) ==
    /\ row.metric_name # NaN /\ row.service # NaN
    /\ row.value.k = "num"
    /\ get_threshold(row.metric_name, row.service) # NoThreshold

\* C1: a metric record with resolved threshold T and value v is reported by
\* metric_anomaly if and only if v > T; a record with v = T is not reported.
C1_AnomalyIffAboveThreshold ==
    d_pc = "returned" =>
        /\ detect_result.status = "ok"
        /\ \A row \in RowSet(metrics_df) :
              HasResolvedThreshold(row) =>
                 (row \in RowSet(detect_result.df)
                     <=> row.value.n > get_threshold(row.metric_name, row.service)[1])

\* a batch holding a record at its threshold (not reported) and one just
\* above it (reported)
C1_Witness ==
    /\ d_pc = "returned"
    /\ \E at, above \in RowSet(metrics_df) :
          /\ HasResolvedThreshold(at) /\ HasResolvedThreshold(above)
          /\ at.metric_name = "latency_ms" /\ at.service = "database"
          /\ at.value.n = 200 /\ at \notin RowSet(detect_result.df)
          /\ above.metric_name = "cpu_pct"
          /\ above.value.n = 86 /\ above \in RowSet(detect_result.df)

\* the pairs of rows of the two inputs of correlate with both timestamps present
TimedPairs ==
    {<<m_row, l_row>> \in RowSet(metric_anomalies) \X RowSet(log_anomalies) :
        m_row.time_stamp # NaT /\ l_row.timestamp # NaT}

\* the Correlation record that stands for the pair
PairRecord(m_row, l_row) ==
    [timestamp |-> m_row.time_stamp,
     metric_service |-> m_row.service,
     metric_name |-> m_row.metric_name,
     metric_value |-> m_row.value,
     log_service |-> l_row.service,
     log_message |-> l_row.message,
     time_diff_seconds |-> Abs(m_row.time_stamp[1] - l_row.timestamp[1])]

\* C2: for every (anomaly, log) pair with timestamps, correlate emits the
\* pair's Correlation if and only if |anomaly time - log time| <= window; a
\* difference equal to the window is emitted.
C2_CorrelatedIffWithinWindow ==
    c_pc = "returned" =>
        /\ correlate_result.status = "ok"
        /\ \A pair \in TimedPairs :
              PairRecord(pair[1], pair[2]) \in RowSet(correlate_result.df)
                 <=> Abs(pair[1].time_stamp[1] - pair[2].timestamp[1]) <= correlation_window

\* a pair exactly one window apart is emitted and a pair one second further
\* apart is not
C2_Witness ==
    /\ c_pc = "returned"
    /\ \E on, off \in TimedPairs :
          /\ Abs(on[1].time_stamp[1] - on[2].timestamp[1]) = correlation_window
          /\ PairRecord(on[1], on[2]) \in RowSet(correlate_result.df)
          /\ Abs(off[1].time_stamp[1] - off[2].timestamp[1]) = correlation_window + 1
          /\ PairRecord(off[1], off[2]) \notin RowSet(correlate_result.df)

----------------------------------------------------------------------------
(* Properties of the recommendation resolver *)

RemoteEvents == SelectSeq(trace, LAMBDA e : e.ev = "REMOTE")

LLMEvents == SelectSeq(trace, LAMBDA e : e.ev = "LLM")

\* position of a tier in the chain
TierRank(e) ==
    CASE e.ev \in {"REMOTE", "SLEEP"} -> 1
      [] e.ev = "LLM" -> 2
      [] OTHER -> 3

\* every REMOTE request so far ended in a timeout, connection or HTTP error
AllRemoteFailed ==
    \A i \in 1..Len(RemoteEvents) : RemoteEvents[i].out.kind \in TransportFailures

\* the non-empty text the REMOTE provider answered with, if it did
RemoteYielded ==
    /\ Len(RemoteEvents) > 0
    /\ RemoteEvents[Len(RemoteEvents)].out.kind = "ok"
    /\ RemoteEvents[Len(RemoteEvents)].out.text # ""

\* the non-empty text the LLM provider answered with, if it did
LLMYielded ==
    /\ Len(LLMEvents) > 0
    /\ LLMEvents[Len(LLMEvents)].out.kind = "ok"
    /\ Strip(LLMEvents[Len(LLMEvents)].out.text) # ""

C4_FirstTierWins ==
    /\ \A i, j \in 1..Len(trace) : i < j => TierRank(trace[i]) <= TierRank(trace[j])
    /\ LLM_CONFIG.llm_only => Len(RemoteEvents) = 0
    /\ r_pc = "done" =>
          r_result = IF RemoteYielded
                     THEN Str(RemoteEvents[Len(RemoteEvents)].out.text)
                     ELSE IF LLMYielded
                          THEN Str(Strip(LLMEvents[Len(LLMEvents)].out.text))
                          ELSE Str(get_recommendation(r_args.service))

\* REMOTE answered with an empty text, the LLM then answered with a text that
\* is returned
C4_Witness ==
    /\ r_pc = "done"
    /\ ~LLM_CONFIG.llm_only
    /\ Len(RemoteEvents) = 1 /\ RemoteEvents[1].out = Outcome("ok", "")
    /\ LLMYielded
    /\ r_result = Str("llm advice")

\* C5: when every REMOTE attempt fails, the REMOTE tier issues exactly
\* retry_attempts + 1 requests, and the LLM tier is entered only after the
\* last of them.
C5_ExactlyRetryPlusOneAttempts ==
    /\ Len(RemoteEvents) <= API_CONFIG.retry_attempts + 1
    /\ (r_pc \in {"remote", "sleep"}) => Len(LLMEvents) = 0
    /\ (r_pc \in {"llm", "local", "done"} /\ ~LLM_CONFIG.llm_only /\ AllRemoteFailed)
          => Len(RemoteEvents) = API_CONFIG.retry_attempts + 1

\* retry_attempts = 2 and three consecutive timeouts, then the LLM tier
C5_Witness ==
    /\ API_CONFIG.retry_attempts = 2
    /\ r_pc = "llm"
    /\ Len(RemoteEvents) = 3
    /\ \A i \in 1..3 : RemoteEvents[i].out.kind = "timeout"

----------------------------------------------------------------------------
(* Properties of the root-cause ranker and the report *)

\* the ranking exists: analyze_root_cause is past its group-by and sort
Ranked == a_pc \in {"resolving", "returned"} /\ ~IsEmpty(correlated_df)

\* the position of the first correlation record of a service
FirstSeen(service) ==
    CHOOSE i \in 1..Len(correlated_df.rows) :
        /\ correlated_df.rows[i].metric_service = service
        /\ \A j \in 1..(i - 1) : correlated_df.rows[j].metric_service # service

\* the services of the correlation records
ServicesSeen ==
    {correlated_df.rows[i].metric_service : i \in 1..Len(correlated_df.rows)}

\* C6: in the ranking, two services with equal anomaly_count appear in the
\* order in which they were first seen in the correlation input.
C6_TiesKeepFirstSeenOrder ==
    Ranked =>
        \A i, j \in 1..Len(service_rankings) :
            (i < j /\ service_rankings[i].anomaly_count = service_rankings[j].anomaly_count)
               => FirstSeen(service_rankings[i].metric_service)
                     < FirstSeen(service_rankings[j].metric_service)

\* C7: the ranking has exactly one entry per distinct metric_service, each
\* entry's anomaly_count is the number of correlation records of that
\* service, and the entries are in non-increasing order of anomaly_count.
C7_OneEntryPerServiceCountedAndSorted ==
    Ranked =>
        /\ {service_rankings[i].metric_service : i \in 1..Len(service_rankings)} = ServicesSeen
        /\ Len(service_rankings) = Cardinality(ServicesSeen)
        /\ \A i \in 1..Len(service_rankings) :
              service_rankings[i].anomaly_count =
                 Cardinality({k \in 1..Len(correlated_df.rows) :
                                 correlated_df.rows[k].metric_service
                                    = service_rankings[i].metric_service})
        /\ \A i \in 1..(Len(service_rankings) - 1) :
              service_rankings[i].anomaly_count >= service_rankings[i + 1].anomaly_count
        /\ a_pc = "returned" => analysis_result.service_rankings = service_rankings

\* a returned ranking of two services, the second seen first but with fewer
\* records
C7_Witness ==
    /\ a_pc = "returned"
    /\ Len(service_rankings) = 2
    /\ service_rankings[1].anomaly_count = 2
    /\ service_rankings[2].anomaly_count = 1
    /\ FirstSeen(service_rankings[2].metric_service) = 1

\* C9: for an empty correlation input analyze_root_cause and
\* generate_incident_report return their "no incident" value without raising
\* and without any recommendation request, and no non-empty input returns
\* that value.
C9_EmptyInputGivesSentinel ==
    /\ IsEmpty(correlated_df) => n_requests = 0 /\ r_pc = "idle"
    /\ (a_pc = "returned" /\ IsEmpty(correlated_df)) =>
          IF a_entry = "analyze_root_cause"
          THEN analysis_result = EmptyAnalysis
          ELSE report = NoIncidentReport
    /\ (a_pc = "returned" /\ ~IsEmpty(correlated_df)) =>
          /\ analysis_result # EmptyAnalysis
          /\ analysis_result.summary_stats.total_correlations > 0
          /\ report # NoIncidentReport

\* generate_incident_report returned on an empty input
C9_Witness ==
    /\ a_pc = "returned"
    /\ a_entry = "generate_incident_report"
    /\ Len(correlated_df.rows) = 0
    /\ report = NoIncidentReport

----------------------------------------------------------------------------
(* Properties of the mock server's severity and of bulk resolution *)

\* the severity the thresholds high >= 10, medium >= 5, low >= 2 give
SeverityOf(anomaly_count) ==
    IF anomaly_count >= 10 THEN "high"
    ELSE IF anomaly_count >= 5 THEN "medium"
    ELSE IF anomaly_count >= 2 THEN "low"
    ELSE "very-low"

SeverityRank(severity) ==
    CASE severity = "high" -> 3
      [] severity = "medium" -> 2
      [] severity = "low" -> 1
      [] OTHER -> 0

\* C8: the severity attached to a recommendation is high when count >= 10,
\* medium when 5 <= count < 10, low when 2 <= count < 5 and very-low when
\* count < 2, and never decreases as anomaly_count grows.
C8_SeverityFromCount ==
    mock_response.status = 200 /\ mock_response.recommendation # "" =>
        /\ mock_response.severity = SeverityOf(mock_response.anomaly_count)
        /\ \A smaller \in 0..mock_response.anomaly_count :
              SeverityRank(mock_severity(smaller)) <= SeverityRank(mock_response.severity)

\* the services named in the list given to the bulk resolver
NamedServices ==
    {b_services_data[i].service : i \in 1..Len(b_services_data)} \ {""}

\* C10: the bulk resolver returns a complete mapping: every service named in
\* the input has an entry; a service the LLM tier resolved keeps the LLM
\* text and every other one gets its LOCAL text.
C10_BulkMappingComplete ==
    b_pc = "returned" =>
        /\ DOMAIN b_return = NamedServices
        /\ \A s \in NamedServices :
              b_return[s] = IF s \in DOMAIN results
                            THEN results[s]
                            ELSE get_recommendation(s)

\* C11: when llm_only is not set, bulk resolution issues a bulk REMOTE
\* request for the whole list before any LLM request is made.
C11_BulkRemoteBeforeLLM ==
    (~LLM_CONFIG.llm_only /\ b_pc \in {"llm", "returned"}) =>
        /\ Len(RemoteEvents) > 0
        /\ \A i \in 1..Len(trace) :
              trace[i].ev = "LLM" => \E j \in 1..(i - 1) : trace[j].ev = "REMOTE"

----------------------------------------------------------------------------
(* Further properties of the threshold evaluator *)

\* a metric row with its three fields present and a numeric value
WellFormed(row) ==
    row.metric_name # NaN /\ row.service # NaN /\ row.value.k = "num"

\* the rows of the input whose value is present but is not a number
NotNumeric(rows) ==
    {i \in 1..Len(rows) :
        /\ rows[i].metric_name # NaN /\ rows[i].service # NaN
        /\ rows[i].value.k \notin {"num", "nan"}}

\* C12: a scalar threshold entry applies to every service; a per-service
\* entry applies the threshold of the record's service; a record whose metric
\* has no entry, or whose service is absent from the per-service entry, is
\* never reported and raises no error, whatever its value.
C12_ThresholdResolution ==
    d_pc = "returned" =>
        /\ detect_result.status = "ok"
        /\ \A row \in RowSet(metrics_df) :
              WellFormed(row) =>
                 IF row.metric_name \notin DOMAIN thresholds
                 THEN row \notin RowSet(detect_result.df)
                 ELSE IF thresholds[row.metric_name].kind = "scalar"
                 THEN row \in RowSet(detect_result.df)
                         <=> row.value.n > thresholds[row.metric_name].value
                 ELSE IF row.service \in DOMAIN thresholds[row.metric_name].map
                 THEN row \in RowSet(detect_result.df)
                         <=> row.value.n > thresholds[row.metric_name].map[row.service]
                 ELSE row \notin RowSet(detect_result.df)
        /\ (\A i \in NotNumeric(metrics_df.rows) :
               get_threshold(metrics_df.rows[i].metric_name,
                             metrics_df.rows[i].service) = NoThreshold)
              => detect_result.counts[2] = 0

\* a batch where the scalar cpu_pct threshold caught a service that has no
\* per-service entry, and a latency_ms record of that service went unreported
C12_Witness ==
    /\ d_pc = "returned"
    /\ detect_result.status = "ok"
    /\ detect_result.counts[2] = 0
    /\ \E scalar, absent \in RowSet(metrics_df) :
          /\ scalar.service = "cache" /\ scalar.metric_name = "cpu_pct"
          /\ scalar.value = Num(86) /\ scalar \in RowSet(detect_result.df)
          /\ absent.service = "cache" /\ absent.metric_name = "latency_ms"
          /\ absent.value = Num(999) /\ absent \notin RowSet(detect_result.df)

\* the positions of the input records that exceed their threshold
Qualifying(rows) ==
    {i \in 1..Len(rows) :
        /\ HasResolvedThreshold(rows[i])
        /\ rows[i].value.n > get_threshold(rows[i].metric_name, rows[i].service)[1]}

\* C13: the output of metric_anomaly is exactly the subsequence of input
\* records that exceed their threshold: same relative order, and identical
\* records that qualify are each kept.
C13_OutputIsQualifyingSubsequence ==
    (d_pc = "returned" /\ detect_result.status = "ok") =>
        LET out == detect_result.df.rows
            inp == metrics_df.rows IN
        /\ Len(out) = Cardinality(Qualifying(inp))
        /\ \A k \in 1..Len(out) :
              /\ out[k].index + 1 \in Qualifying(inp)
              /\ out[k] = inp[out[k].index + 1]
        /\ \A k \in 1..(Len(out) - 1) : out[k].index < out[k + 1].index

\* two identical qualifying records, both kept, in input order
C13_Witness ==
    /\ d_pc = "returned"
    /\ Len(metrics_df.rows) = 2
    /\ Len(detect_result.df.rows) = 2
    /\ detect_result.df.rows[1].index = 0
    /\ detect_result.df.rows[2].index = 1
    /\ detect_result.df.rows[1].service = detect_result.df.rows[2].service
    /\ detect_result.df.rows[1].metric_name = detect_result.df.rows[2].metric_name
    /\ detect_result.df.rows[1].value = detect_result.df.rows[2].value

----------------------------------------------------------------------------
(* Further properties of the correlator *)

\* the (anomaly, log record) pairs, by position, that have both timestamps
\* and lie within the window
QualifyingPairs ==
    {p \in (1..Len(metric_anomalies.rows)) \X (1..Len(log_anomalies.rows)) :
        /\ metric_anomalies.rows[p[1]].time_stamp # NaT
        /\ log_anomalies.rows[p[2]].timestamp # NaT
        /\ Abs(metric_anomalies.rows[p[1]].time_stamp[1]
                  - log_anomalies.rows[p[2]].timestamp[1]) <= correlation_window}

\* the Correlation record of a pair of positions
RecordOf(p) == PairRecord(metric_anomalies.rows[p[1]], log_anomalies.rows[p[2]])

\* how many of the emitted records equal r
Emitted(r) ==
    Cardinality({k \in 1..Len(correlate_result.df.rows) : correlate_result.df.rows[k] = r})

\* C14: the correlations emitted are in one-to-one correspondence with the
\* qualifying (anomaly, log record) pairs: one record per qualifying pair,
\* no other record, and no error when an anomaly has no qualifying log.
C14_OneRecordPerQualifyingPair ==
    c_pc = "returned" =>
        /\ correlate_result.status = "ok"
        /\ correlate_result.counts[2] = 0
        /\ Len(correlate_result.df.rows) = Cardinality(QualifyingPairs)
        /\ \A k \in 1..Len(correlate_result.df.rows) :
              \E p \in QualifyingPairs : correlate_result.df.rows[k] = RecordOf(p)
        /\ \A p \in QualifyingPairs :
              Emitted(RecordOf(p))
                 = Cardinality({q \in QualifyingPairs : RecordOf(q) = RecordOf(p)})

\* two anomalies and two log records giving three records: the first anomaly
\* is in two of them, the second log record is in two of them, and the
\* second anomaly has no record with the first log record
C14_Witness ==
    /\ c_pc = "returned"
    /\ QualifyingPairs = {<<1, 1>>, <<1, 2>>, <<2, 2>>}
    /\ Len(correlate_result.df.rows) = 3

\* the anomalies and the log records that carry a timestamp
TimedAnomalies == SelectSeq(metric_anomalies.rows, LAMBDA row : row.time_stamp # NaT)

TimedLogs == SelectSeq(log_anomalies.rows, LAMBDA row : row.timestamp # NaT)

\* C15: an anomaly or a log record whose timestamp is null contributes no
\* Correlation and does not abort correlate: every pair with two valid
\* timestamps is still evaluated, and emitted if it qualifies.
C15_NullTimestampsSkipped ==
    c_pc = "returned" =>
        /\ correlate_result.status = "ok"
        /\ \A k \in 1..Len(correlate_result.df.rows) :
              correlate_result.df.rows[k].timestamp # NaT
        /\ correlate_result.counts[1] = Len(TimedAnomalies) * Len(TimedLogs)
        /\ Len(correlate_result.df.rows)
              = Cardinality({p \in (1..Len(TimedAnomalies)) \X (1..Len(TimedLogs)) :
                    Abs(TimedAnomalies[p[1]].time_stamp[1] - TimedLogs[p[2]].timestamp[1])
                       <= correlation_window})
        /\ \A m_row \in RowSet(metric_anomalies), l_row \in RowSet(log_anomalies) :
              (/\ m_row.time_stamp # NaT /\ l_row.timestamp # NaT
               /\ Abs(m_row.time_stamp[1] - l_row.timestamp[1]) <= correlation_window)
                 => PairRecord(m_row, l_row) \in RowSet(correlate_result.df)

\* the first anomaly and the first log record have no timestamp, and the pair
\* of the second anomaly and the second log record was still emitted
C15_Witness ==
    /\ c_pc = "returned"
    /\ Len(metric_anomalies.rows) = 2 /\ Len(log_anomalies.rows) = 2
    /\ metric_anomalies.rows[1].time_stamp = NaT
    /\ log_anomalies.rows[1].timestamp = NaT
    /\ Len(correlate_result.df.rows) = 1
    /\ correlate_result.df.rows[1]
          = PairRecord(metric_anomalies.rows[2], log_anomalies.rows[2])

\* the positions of the records with a missing value, service or metric_name
Malformed(rows) ==
    {i \in 1..Len(rows) :
        rows[i].metric_name = NaN \/ rows[i].service = NaN \/ rows[i].value.k = "nan"}

\* C16: a metric record with a missing value, service or metric_name is
\* skipped and counted and does not abort the batch: the other records are
\* still classified and the count of skipped records equals the number of
\* malformed records of the input.
C16_MalformedSkippedAndCounted ==
    (d_pc = "returned" /\ NotNumeric(metrics_df.rows) = {}) =>
        /\ detect_result.status = "ok"
        /\ \A i \in Malformed(metrics_df.rows) :
              metrics_df.rows[i] \notin RowSet(detect_result.df)
        /\ Len(detect_result.df.rows) = Cardinality(Qualifying(metrics_df.rows))
        /\ detect_result.counts[2] = Cardinality(Malformed(metrics_df.rows))

\* C17: metric_anomaly fails with an invalid-input error, and returns no
\* anomalies, whenever the batch lacks one of the required fields or is not
\* a record batch at all, a batch with zero rows included.
C17_InvalidInputRejected ==
    (/\ d_pc = "returned"
     /\ (metrics_df.kind # "DataFrame" \/ MetricColumns \ metrics_df.columns # {})) =>
        /\ detect_result.status \in {"TypeError", "ValueError"}
        /\ Len(detect_result.df.rows) = 0

----------------------------------------------------------------------------
(* Further properties of the recommendation resolver *)

\* the last REMOTE response was a 2xx one with no 'recommendation' field in
\* its body, or with a body that does not parse
RemoteLackedField ==
    /\ Len(RemoteEvents) > 0
    /\ RemoteEvents[Len(RemoteEvents)].out.kind \in {"missing_field", "bad_json", "not_object"}

\* C18: a 2xx REMOTE response that lacks the 'recommendation' field, or whose
\* body cannot be parsed, is a soft failure: get_recommendations returns no
\* recommendation without raising, and resolution falls through to the LLM
\* tier.
C18_MissingFieldIsSoftFailure ==
    RemoteLackedField =>
        /\ api_recommendation = None
        /\ r_pc \in {"llm", "local", "done"}
        /\ r_pc = "done" => trace[Len(trace)].ev \in {"LLM", "LOCAL"}

\* the LLM request of this resolution brought no usable content
LLMFailed ==
    /\ Len(LLMEvents) > 0
    /\ ~LLMYielded

\* C19: the LLM tier issues at most one request per resolution and never
\* retries: a timeout, transport error, HTTP error, parse error or empty
\* content each make the tier return nothing without raising, and resolution
\* falls through to LOCAL.
C19_LLMOneRequestSoftFailure ==
    /\ Len(LLMEvents) <= 1
    /\ llm_rec.k # "raise"
    /\ LLMFailed =>
          /\ ~Truthy(llm_rec)
          /\ r_pc \in {"local", "done"}
          /\ r_pc = "done" =>
                /\ trace[Len(trace)].ev = "LOCAL"
                /\ r_result = Str(get_recommendation(r_args.service))

\* a resolution that ended on the LOCAL text after one LLM request that
\* timed out
C19_Witness ==
    /\ r_pc = "done"
    /\ Len(LLMEvents) = 1
    /\ LLMEvents[1].out.kind = "timeout"
    /\ llm_rec = None
    /\ trace[Len(trace)].ev = "LOCAL"
    /\ r_result = Str(get_recommendation(r_args.service))

\* the LOCAL table was consulted in this resolution
LocalConsulted == \E i \in 1..Len(trace) : trace[i].ev = "LOCAL"

\* C20: in a single-service resolution an LLM request is issued only if the
\* REMOTE tier was skipped (llm_only) or finished without a usable
\* recommendation; if REMOTE returned a non-empty recommendation, no LLM
\* request is ever issued and the LOCAL table is not consulted.
C20_LLMOnlyAfterRemote ==
    /\ Len(LLMEvents) > 0 =>
          \/ LLM_CONFIG.llm_only /\ Len(RemoteEvents) = 0
          \/ /\ ~LLM_CONFIG.llm_only
             /\ Len(RemoteEvents) > 0
             /\ ~Truthy(api_recommendation)
             /\ \A i \in 1..Len(trace) :
                   trace[i].ev = "LLM" => \A j \in 1..Len(trace) :
                                             trace[j].ev = "REMOTE" => j < i
    /\ Truthy(api_recommendation) =>
          /\ Len(LLMEvents) = 0
          /\ ~LocalConsulted
          /\ r_pc = "done"
          /\ r_result = api_recommendation

\* REMOTE answered with a text while the LLM tier was configured and ready:
\* the resolution ended there, with no LLM request
C20_Witness ==
    /\ r_pc = "done"
    /\ LLM_CONFIG.enabled /\ LLM_CONFIG.api_key # "" /\ ~LLM_CONFIG.llm_only
    /\ RemoteYielded
    /\ Len(LLMEvents) = 0
    /\ ~LocalConsulted
    /\ r_result = Str("remote advice")

\* C21: when neither REMOTE nor LLM yields a recommendation, the result is
\* the LOCAL table entry of the service if it has one (for 'api' the 'Check
\* API latency...' text) and the generic 'no predefined recommendation' text
\* for any other service; the LOCAL lookup never fails.
C21_LocalTableOrGenericText ==
    (r_pc = "done" /\ ~RemoteYielded /\ ~LLMYielded) =>
        /\ LocalConsulted
        /\ r_result.k = "str"
        /\ r_args.service = "api" =>
              r_result.v = "Check API latency and backend dependencies. Possible timeout or overload."
        /\ r_args.service \in {"api", "database", "frontend"} =>
              r_result.v = config_recommendations[r_args.service]
        /\ r_args.service \notin {"api", "database", "frontend"} =>
              r_result.v = "No predefined recommendation available for this service."

\* the REMOTE server is down and the LLM tier has no key: 'api' gets its
\* LOCAL text
C21_Witness ==
    /\ r_pc = "done"
    /\ r_args.service = "api"
    /\ Len(RemoteEvents) > 0 /\ AllRemoteFailed
    /\ LLM_CONFIG.api_key = "" /\ Len(LLMEvents) = 0
    /\ r_result = Str("Check API latency and backend dependencies. Possible timeout or overload.")

----------------------------------------------------------------------------
(* Properties of the configuration check and of the pipeline *)

\* a positive number
PositiveNumber(x) == x.k = "num" /\ x.n > 0

\* every setting the configuration check is said to cover is valid: the
\* thresholds (cpu_pct a percentage), the window, the timeout and the retry
\* settings are numbers, positive where a zero makes no sense, the date
\* parses, the recommendation texts are not blank and no key is missing
AllSettingsValid(cfg) ==
    /\ PositiveNumber(cfg.thresholds.cpu_pct) /\ cfg.thresholds.cpu_pct.n <= 100
    /\ cfg.thresholds.latency_ms.kind = "dict"
    /\ \A service \in DOMAIN cfg.thresholds.latency_ms.map :
          PositiveNumber(cfg.thresholds.latency_ms.map[service])
    /\ PositiveNumber(cfg.correlation_window)
    /\ cfg.BASE_DATE.sep = "-"
    /\ \A service \in DOMAIN cfg.recommendations :
          cfg.recommendations[service] \notin {"", "   "}
    /\ PositiveNumber(cfg.API_CONFIG.timeout)
    /\ cfg.API_CONFIG.retry_attempts.k = "num" /\ cfg.API_CONFIG.retry_attempts.n >= 0
    /\ PositiveNumber(cfg.API_CONFIG.retry_delay)
    /\ cfg.API_CONFIG.fallback_enabled.k = "bool"

\* C22: validate_config raises, and the run stops before any stage, for any
\* configuration with a non-positive or non-numeric threshold, window,
\* timeout or retry setting, a blank recommendation or a missing key, and
\* accepts every configuration in which all of these are valid.
C22_ConfigValidatedAtStartup ==
    m_pc # "import" =>
        /\ validate_result = "ok" <=> AllSettingsValid(raw_config)
        /\ m_pc = "stopped" <=> validate_result # "ok"

SleepEvents == SelectSeq(trace, LAMBDA e : e.ev = "SLEEP")

\* the REMOTE tier of this resolution is over
RemoteTierOver == r_pc \in {"llm", "local", "done"} /\ Len(RemoteEvents) > 0

\* C23: REMOTE attempts are strictly sequential: attempt k+1 starts only
\* after attempt k has failed and one retry_delay has elapsed; a delay occurs
\* between every two consecutive attempts and never after the final one, so a
\* tier that makes n attempts waits exactly n-1 times.
C23_DelayBetweenAttemptsOnly ==
    /\ \A i \in 1..Len(trace) :
          trace[i].ev = "REMOTE" =>
             \/ i = 1
             \/ /\ trace[i - 1].ev = "SLEEP"
                /\ i > 2
                /\ trace[i - 2].ev = "REMOTE"
                /\ trace[i - 2].out.kind \in TransportFailures
    /\ \A i \in 1..Len(trace) :
          trace[i].ev = "SLEEP" =>
             /\ i > 1 /\ trace[i - 1].ev = "REMOTE"
             /\ i < Len(trace) => trace[i + 1].ev = "REMOTE"
    /\ (Len(trace) > 0 /\ trace[Len(trace)].ev = "SLEEP") => r_pc = "remote"
    /\ RemoteTierOver => Len(SleepEvents) = Len(RemoteEvents) - 1

\* three attempts, the third one answered: two delays, none after the last
C23_Witness ==
    /\ r_pc = "done"
    /\ Len(RemoteEvents) = 3
    /\ Len(SleepEvents) = 2
    /\ RemoteYielded
    /\ trace[Len(trace)].ev = "REMOTE"

\* C24: get_recommendations raises APIError if and only if all retry
\* attempts failed and fallback_enabled is false; when all attempts fail and
\* fallback_enabled is true it returns None instead of raising.
C24_APIErrorIffFallbackDisabled ==
    /\ ~RemoteTierOver => api_recommendation # Raise("APIError")
    /\ RemoteTierOver =>
          /\ api_recommendation = Raise("APIError")
                <=> (AllRemoteFailed /\ ~API_CONFIG.fallback_enabled)
          /\ (AllRemoteFailed /\ API_CONFIG.fallback_enabled) => api_recommendation = None

\* fallback disabled, one retry, both attempts refused: APIError, which the
\* resolver catches before going on to the LLM tier
C24_Witness ==
    /\ r_pc = "llm"
    /\ ~API_CONFIG.fallback_enabled
    /\ API_CONFIG.retry_attempts = 1
    /\ Len(RemoteEvents) = 2
    /\ \A i \in 1..2 : RemoteEvents[i].out.kind = "connection_error"
    /\ api_recommendation = Raise("APIError")

\* the correlation records of a service, in source order
CorrelationsOf(service) ==
    SelectSeq(correlated_df.rows, LAMBDA row : row.metric_service = service)

\* the correlation records with their metric name and value blanked out
WithoutMetrics ==
    [i \in 1..Len(correlated_df.rows) |->
        [correlated_df.rows[i] EXCEPT !.metric_name = "", !.metric_value = Num(0)]]

\* C25: for each ranked service the context passed to the resolver carries
\* the metric_name of the service's first correlation in source order and the
\* mean of metric_value over all its correlations, and neither value affects
\* the ranking order.
C25_ContextFirstMetricAndMean ==
    Ranked =>
        /\ Len(services_data) = Len(service_rankings)
        /\ \A i \in 1..Len(services_data) :
              LET service == service_rankings[i].metric_service IN
              /\ services_data[i].service = service
              /\ services_data[i].anomaly_count = service_rankings[i].anomaly_count
              /\ services_data[i].metric_name
                    = correlated_df.rows[FirstSeen(service)].metric_name
              /\ services_data[i].metric_value
                    = Mean(SumValues(CorrelationsOf(service)), Len(CorrelationsOf(service)))
        /\ a_pc = "resolving" => r_args = services_data[a_idx]
        /\ service_rankings \in sort_values(groupby_size(WithoutMetrics))

\* 'api' has a latency_ms correlation of 400 followed by a cpu_pct one of 90:
\* the resolver is called with latency_ms and the mean 490 / 2
C25_Witness ==
    /\ a_pc = "resolving"
    /\ Len(correlated_df.rows) = 2
    /\ correlated_df.rows[1].metric_name = "latency_ms"
    /\ correlated_df.rows[2].metric_name = "cpu_pct"
    /\ r_args.service = "api"
    /\ r_args.anomaly_count = 2
    /\ r_args.metric_name = "latency_ms"
    /\ r_args.metric_value = Mean(490, 2)

\* the sum of the anomaly_counts of a ranking
RECURSIVE SumCounts(_)
SumCounts(ranking) ==
    IF Len(ranking) = 0 THEN 0 ELSE Head(ranking).anomaly_count + SumCounts(Tail(ranking))

\* C26: in the report for a non-empty correlation set, total_correlations is
\* the number of correlation records and the sum of all anomaly_counts,
\* services_affected is the number of ranking entries, and the top service
\* is the first ranking entry, whose count is >= every other service's.
C26_SummaryStatistics ==
    (a_pc = "returned" /\ ~IsEmpty(correlated_df)) =>
        LET stats == analysis_result.summary_stats
            ranking == analysis_result.service_rankings IN
        /\ analysis_result.status = "ok"
        /\ stats.total_correlations = Len(correlated_df.rows)
        /\ stats.total_correlations = SumCounts(ranking)
        /\ stats.services_affected = Len(ranking)
        /\ stats.most_problematic_service = ranking[1].metric_service
        /\ stats.highest_anomaly_count = ranking[1].anomaly_count
        /\ \A i \in 1..Len(ranking) : stats.highest_anomaly_count >= ranking[i].anomaly_count
        /\ a_entry = "generate_incident_report" =>
              /\ report.total_correlations = stats.total_correlations
              /\ report.services_affected = stats.services_affected
              /\ report.most_problematic_service = stats.most_problematic_service
              /\ report.highest_anomaly_count = stats.highest_anomaly_count

\* an incident report over three correlations of two services, two of them
\* of the top service
C26_Witness ==
    /\ a_pc = "returned"
    /\ a_entry = "generate_incident_report"
    /\ Len(correlated_df.rows) = 3
    /\ report.total_correlations = 3
    /\ report.services_affected = 2
    /\ report.highest_anomaly_count = 2
    /\ report.most_problematic_service = "database"

----------------------------------------------------------------------------
(* Properties of the pipeline *)

\* C27: metric_anomaly, correlate and analyze_root_cause leave their input
\* record sets and the configuration unchanged: no step of the pipeline
\* changes the loaded metrics or logs, the threshold table, the correlation
\* window or the local recommendation table, and while a stage runs the
\* frames it was called with stay as they were.
C27_InputsAndConfigurationUnchanged ==
    [][/\ metrics_df' = metrics_df
       /\ logs' = logs
       /\ thresholds' = thresholds
       /\ correlation_window' = correlation_window
       /\ recommendations' = recommendations
       /\ c_pc = "ready" =>
             /\ metric_anomalies' = metric_anomalies
             /\ log_anomalies' = log_anomalies
       /\ a_pc \in {"ready", "resolving"} => correlated_df' = correlated_df]_vars

\* the three stages have run on metrics of which only some are anomalies
\* and the loaded metrics still hold the rows that are not
C27_Witness ==
    /\ m_pc = "done"
    /\ Len(detect_result.df.rows) > 0
    /\ Len(metrics_df.rows) > Len(detect_result.df.rows)
    /\ Len(correlate_result.df.rows) > 0
    /\ analysis_result.status = "ok"
    /\ thresholds = config_thresholds
    /\ recommendations = config_recommendations

\* the levels that are not error levels
InfoOrWarn(level) ==
    /\ ~level.na
    /\ level.chars \in {<<"I", "N", "F", "O">>, <<"W", "A", "R", "N">>}

\* the correlations the pipeline has produced so far
PipelineCorrelations == RowSet(correlate_result.df) \cup RowSet(correlated_df)

\* C28: every correlation the pipeline produces pairs an anomaly with an
\* error-level log record: it carries the service and message of a loaded
\* log whose level contains ERROR, and of no loaded INFO or WARN log; no
\* INFO or WARN log is handed to correlate.
C28_OnlyErrorLogsCorrelated ==
    /\ \A l \in RowSet(log_anomalies) : ~InfoOrWarn(l.level)
    /\ \A c \in PipelineCorrelations :
          /\ \E l \in RowSet(logs) :
                /\ ContainsIgnoreCase(l.level, <<"E", "R", "R", "O", "R">>)
                /\ l.message = c.log_message
                /\ l.service = c.log_service
          /\ \A l \in RowSet(logs) :
                InfoOrWarn(l.level) => l.message # c.log_message

\* an INFO or WARN log was loaded inside the window of an anomaly next to
\* an error log, and the pipeline correlated the anomaly with the error log
C28_Witness ==
    /\ m_pc = "done"
    /\ \E l \in RowSet(logs) : InfoOrWarn(l.level)
    /\ \E l \in RowSet(logs) : ContainsIgnoreCase(l.level, <<"E", "R", "R", "O", "R">>)
    /\ Len(detect_result.df.rows) > 0
    /\ Len(correlated_df.rows) > 0
    /\ Len(correlated_df.rows) < Len(detect_result.df.rows) * Len(logs.rows)

\* C29: the first REMOTE attempt that receives a 2xx response ends the
\* REMOTE tier at once, whatever its body holds: a REMOTE event that is not
\* a transport or status failure is the last REMOTE event of the resolution,
\* no delay follows it, and the resolver has left the REMOTE tier.
C29_First2xxEndsRemoteTier ==
    \A i \in 1..Len(trace) :
        (trace[i].ev = "REMOTE" /\ trace[i].out.kind \notin TransportFailures) =>
            /\ \A j \in (i + 1)..Len(trace) : trace[j].ev \notin {"REMOTE", "SLEEP"}
            /\ r_pc \notin {"remote", "sleep"}

\* with retries left, the first attempt got a 2xx response without the
\* recommendation field, and the resolution went on to the LLM, with one
\* REMOTE request and no delay
C29_Witness ==
    /\ r_pc = "done"
    /\ API_CONFIG.retry_attempts >= 1
    /\ Len(trace) >= 2
    /\ trace[1].ev = "REMOTE"
    /\ trace[1].out.kind \in {"missing_field", "bad_json"}
    /\ trace[2].ev = "LLM"
    /\ Len(RemoteEvents) = 1
    /\ Len(SleepEvents) = 0

\* a resolution is under way
Resolving == r_pc \in {"remote", "sleep", "llm", "local"}

\* the resolution has ended with a recommendation text
Resolved == r_pc = "done" /\ r_result.k = "str" /\ r_result.v # ""

\* C30: when every request eventually answers or times out, a single-service
\* resolution terminates with a result, having issued at most
\* retry_attempts + 1 REMOTE requests and at most one LLM request.
C30_TerminatesWithinRequestBudget ==
    /\ [](/\ Len(RemoteEvents) <= API_CONFIG.retry_attempts + 1
          /\ Len(LLMEvents) <= 1)
    /\ (Resolving ~> Resolved)

\* a resolution that used its whole budget: every REMOTE attempt failed,
\* the one LLM request failed, and the local table gave the result
C30_Witness ==
    /\ Resolved
    /\ API_CONFIG.retry_attempts = MaxRetry
    /\ Len(RemoteEvents) = MaxRetry + 1
    /\ Len(LLMEvents) = 1
    /\ trace[Len(trace)].ev = "LOCAL"

====
